---- MODULE Spec2Model ----
(***************************************************************************)
(* Conversational meal logging (ai-calorie-app): the agent runtime         *)
(* (runAgent), its tools (createMeal, patchMealEntries, deleteMeal,        *)
(* findFoodCandidates), the candidate ranking, and PATCH /api/entry/:id.   *)
(*                                                                         *)
(* Conventions of the model                                                *)
(*  - a text (utterance, item name, entry name) is a sequence of           *)
(*    lower-case words; the words are the maximal runs of non-blank        *)
(*    characters of the source string;                                     *)
(*  - a nutrition number (kcal, protein, carbs, fat) is an integer count   *)
(*    of hundredths (131.0 kcal is 13100), NullNum is JavaScript's null    *)
(*    or undefined; arithmetic is exact decimal arithmetic;                *)
(*  - a score or confidence is an integer count of hundredths (0.34 = 34); *)
(*  - a meal id or entry id is its index in meals / entries, 0 is "no id"  *)
(*    (the code tests ids by truthiness, so null and 0 behave alike).      *)
(***************************************************************************)
EXTENDS Integers, Sequences, FiniteSets, TLC

VARIABLES
    meals,          \* Meal rows, by id
    entries,        \* MealEntry rows, by id
    revisions,      \* EntryRevision rows, in creation order
    sessions,       \* ConversationSession rows, by sessionId
    mealActions,    \* MealAction rows (the audit log), in creation order
    clock,          \* [berlinDate, utcDate]: the wall clock's two calendar days
    turnNo,         \* number of runAgent turns processed so far
    editNo,         \* number of PATCH /api/entry/:id requests processed so far
    request,        \* the AgentRequest of the last turn
    intent,         \* the AgentIntent the last turn acted on
    resolvedItems,  \* the last turn's resolved items (<<>> when not reached)
    envelope,       \* the last turn's result
    probe           \* the inputs of the step under study (ResolveSpec, BackendSpec)

vars == <<meals, entries, revisions, sessions, mealActions, clock, turnNo, editNo,
          request, intent, resolvedItems, envelope, probe>>

----------------------------------------------------------------------------
(* Bounds of the model *)

MaxTurns == 2
MaxEdits == 1
MaxMeals == 1
MaxEntries == 3
MaxDay == 1

----------------------------------------------------------------------------
(* Encodings *)

NullNum == -1
NoId == 0

Range(s) == {s[i] : i \in 1..Len(s)}

RECURSIVE SumSeq(_)
SumSeq(s) == IF s = <<>> THEN 0 ELSE Head(s) + SumSeq(Tail(s))

RECURSIVE FilterIdx(_, _, _)
(* the indices i..Len(s) whose element is in the set keep, ascending *)
FilterIdx(s, keep, i) ==
    IF i > Len(s) THEN <<>>
    ELSE IF s[i] \in keep THEN <<i>> \o FilterIdx(s, keep, i + 1)
    ELSE FilterIdx(s, keep, i + 1)

Reverse(s) == [i \in 1..Len(s) |-> s[Len(s) + 1 - i]]

Min2(a, b) == IF a < b THEN a ELSE b
Max2(a, b) == IF a > b THEN a ELSE b

(* Math.round(n / d) for n >= 0, d > 0: round half up *)
RoundDiv(n, d) == (2 * n + d) \div (2 * d)

(* round1 / roundToSingleDecimal: Math.round(value * 10) / 10, on hundredths *)
Round1(x) == 10 * RoundDiv(x, 10)

(* value ?? 0 *)
OrZero(v) == IF v = NullNum THEN 0 ELSE v

(* a ?? b *)
Coalesce(a, b) == IF a = NullNum THEN b ELSE a

----------------------------------------------------------------------------
(* Words and texts *)

(* word w contains the keyword k as a substring; besides equality, the pairs
   that hold among the words of Corpus and the keywords of the source's
   regular expressions *)
ProperSubstrings ==
    {<<"actually", "all">>, <<"eggs", "egg">>, <<"veggie", "egg">>}

Contains(w, k) == w = k \/ <<w, k>> \in ProperSubstrings

(* some word of the text contains some keyword: /(k1|k2|...)/.test(text),
   for keywords without blanks *)
TextHas(text, keywords) ==
    \E i \in 1..Len(text) : \E k \in keywords : Contains(text[i], k)

(* the words "#<digits>" and the words "<digits>", with their numbers *)
HashWords == {"#1", "#2"}
DigitWords == {"1", "2"}

NumberOfWord(w) ==
    CASE w \in {"#1", "1"} -> 1
      [] w \in {"#2", "2"} -> 2
      [] w = "50g" -> 50
      [] w = "100g" -> 100
      [] w = "150g" -> 150
      [] w = "200g" -> 200
      [] OTHER -> 0

(* the words "<number>g" *)
GramWords == {"50g", "100g", "150g", "200g"}

(* \w+ : a word of letters, digits and underscores only *)
IsWordChars(w) == w \notin HashWords

(* length in characters of the words joined by single blanks *)
CharLen(words) ==
    IF words = <<>> THEN 0
    ELSE SumSeq([i \in 1..Len(words) |-> Len(words[i])]) + Len(words) - 1

(* the first index >= i at which test holds, 0 when there is none *)
RECURSIVE FirstIdx(_, _, _)
FirstIdx(text, S, i) ==
    IF i > Len(text) THEN 0
    ELSE IF text[i] \in S THEN i
    ELSE FirstIdx(text, S, i + 1)

RECURSIVE FirstMealPhrase(_, _)
FirstMealPhrase(text, i) ==
    IF i + 1 > Len(text) THEN 0
    ELSE IF text[i] = "meal" /\ text[i + 1] \in DigitWords THEN i + 1
    ELSE FirstMealPhrase(text, i + 1)

(* parseMealIdFromText: #N anywhere, else "meal N"; NoId when neither *)
ParseMealIdFromText(text) ==
    LET h == FirstIdx(text, HashWords, 1)
        p == FirstMealPhrase(text, 1)
    IN  IF h # 0 /\ NumberOfWord(text[h]) # 0 THEN NumberOfWord(text[h])
        ELSE IF p # 0 /\ NumberOfWord(text[p]) # 0 THEN NumberOfWord(text[p])
        ELSE NoId

(* tokenize of patch-meal-entries and nutrition-lookup: lower-case, split on
   non-alphanumerics, keep the tokens longer than one character.  "#1" splits
   into "" and "1"; every other word of the model is one alphanumeric run. *)
Tokenize(words) == {w \in Range(words) : Len(w) > 1 /\ w \notin HashWords}

----------------------------------------------------------------------------
(* Intent classification: heuristicIntent *)

(* AgentItemInput *)
ItemInput(name, displayName, grams, kcal, proteinG, carbsG, fatG) ==
    [name |-> name, displayName |-> displayName, amountGrams |-> grams,
     kcal |-> kcal, proteinG |-> proteinG, carbsG |-> carbsG, fatG |-> fatG]

(* the separators that end an item name in gramsPattern: " and ", "," and "+" *)
ItemSeparators == {"and", ",", "+"}

(* index of the last word of the name that starts at word i: the name runs to
   the next separator or to the end of the text *)
RECURSIVE NameEnd(_, _)
NameEnd(text, i) ==
    IF i + 1 > Len(text) \/ text[i + 1] \in ItemSeparators THEN i
    ELSE NameEnd(text, i + 1)

(* lower.matchAll(gramsPattern): each "<number>g <name>", left to right *)
RECURSIVE GramItems(_, _)
GramItems(text, i) ==
    IF i > Len(text) THEN <<>>
    ELSE IF /\ text[i] \in GramWords
            /\ i + 1 <= Len(text)
            /\ text[i + 1] \notin ItemSeparators
         THEN LET e == NameEnd(text, i + 1)
                  name == SubSeq(text, i + 1, e)
              IN  <<ItemInput(name, <<text[i]>> \o name, NumberOfWord(text[i]),
                              NullNum, NullNum, NullNum, NullNum)>>
                  \o GramItems(text, e + 1)
         ELSE GramItems(text, i + 1)

FallbackStopWords ==
    {"i", "ate", "had", "for", "breakfast", "lunch", "dinner", "snack", "and",
     "with", "the", "a", "an", "to", "please"}

NameCap == 64

(* the utterance without the stop words, cut to 64 characters (the texts of
   the model are shorter, so the cut never falls inside a word) *)
FallbackName(text) ==
    LET kept == FilterIdx(text, Range(text) \ FallbackStopWords, 1)
        words == [j \in 1..Len(kept) |-> text[kept[j]]]
        fits == {k \in 0..Len(words) : CharLen(SubSeq(words, 1, k)) <= NameCap}
    IN  SubSeq(words, 1, CHOOSE k \in fits : \A j \in fits : j <= k)

DeleteWords == {"delete", "remove", "erase", "clear"}
ListWords == {"list", "show"}
ReplaceWords == {"replace", "instead"}
PatchWords == {"change", "update", "actually", "correct"}
AllScopeWords == {"all", "today", "everything", "meals"}

(* /(delete|remove|erase|clear)/.test(lower) *)
HasDeleteWord(text) == TextHas(text, DeleteWords)

(* /(list|show|what are my meals|my meals)/.test(lower) *)
IsListText(text) ==
    \/ TextHas(text, ListWords)
    \/ \E i \in 1..(Len(text) - 1) : text[i] = "my" /\ text[i + 1] = "meals"

(* /(replace|instead|meal\s+\w+\s+was)/.test(lower) *)
IsReplaceText(text) ==
    \/ TextHas(text, ReplaceWords)
    \/ \E i \in 1..(Len(text) - 2) :
          text[i] = "meal" /\ IsWordChars(text[i + 1]) /\ text[i + 2] = "was"

(* /(change|update|actually|correct)/.test(lower) *)
IsPatchText(text) == TextHas(text, PatchWords)

(* AgentIntent; requiresInput is "none" for null, else the kind of question *)
Intent(action, target, items, scope, conf, asks) ==
    [action |-> action, targetMealId |-> target, items |-> items,
     deleteScope |-> scope, confidence |-> conf, requiresInput |-> asks]

HeuristicIntent(text) ==
    LET id == ParseMealIdFromText(text)
        isDelete == HasDeleteWord(text)
        isList == IsListText(text)
        grams == GramItems(text, 1)
        fallbackName == FallbackName(text)
        items ==
            IF grams = <<>> /\ ~isDelete /\ ~isList /\ CharLen(fallbackName) > 1
            THEN <<ItemInput(fallbackName, fallbackName, NullNum,
                             NullNum, NullNum, NullNum, NullNum)>>
            ELSE grams
        asks == IF items # <<>> THEN "none" ELSE "no_items"
    IN  IF isList THEN Intent("list", id, <<>>, "none", 70, "none")
        ELSE IF isDelete
             THEN Intent("delete", id, <<>>,
                         IF TextHas(text, AllScopeWords) THEN "all" ELSE "one",
                         70, "none")
        ELSE IF IsReplaceText(text) THEN Intent("replace", id, items, "none", 65, asks)
        ELSE IF IsPatchText(text) THEN Intent("patch", id, items, "none", 65, asks)
        ELSE Intent("log", id, items, "none", 75, asks)

----------------------------------------------------------------------------
(* Nutrition candidates: the resolver's merge, the ranking, the scaling *)

Candidate(id, name, brand, kcal, protein, carbs, fat, sourceType) ==
    [id |-> id, name |-> name, brand |-> brand, kcalPer100g |-> kcal,
     proteinPer100g |-> protein, carbsPer100g |-> carbs, fatPer100g |-> fat,
     sourceType |-> sourceType]

(* the products the external source knows, per 100 g, as the test doubles of
   the repository serve them: keyword of the query, then the product *)
Products(sourceType) ==
    <<[key |-> "rice",
       product |-> Candidate("off_rice1", <<"cooked", "rice">>, <<"generic">>,
                             13100, 270, 2800, 30, sourceType)],
      [key |-> "chicken",
       product |-> Candidate("off_chicken1", <<"chicken", "breast">>, <<"generic">>,
                             16500, 3100, 0, 360, sourceType)],
      [key |-> "skyr",
       product |-> Candidate("off_skyr1", <<"skyr", "natural">>, <<"milbona">>,
                             6200, 1100, 400, 20, sourceType)]>>

(* one search of the external source: the product of the first keyword the
   query contains, or nothing; nothing at all when the source answers with an
   error status (searchOpenFoodFacts returns [] when !response.ok) *)
SearchOpenFoodFacts(item, sourceType, net) ==
    LET ps == Products(sourceType)
        hit == {i \in 1..Len(ps) : TextHas(item, {ps[i].key})}
    IN  IF net # "up" \/ hit = {} THEN <<>>
        ELSE <<ps[CHOOSE i \in hit : \A j \in hit : i <= j].product>>

(* every candidate of the list is taken, known id or not *)
MergeKeepingDuplicates(merged, list, limit) ==
    SubSeq(merged \o list, 1, Max2(Len(merged), Min2(Len(merged \o list), limit)))

(* for (c of list) if (!merged.has(c.id)) merged.set(c.id, c); stop at limit *)
RECURSIVE MergeNew(_, _, _)
MergeNew(merged, list, limit) ==
    IF list = <<>> THEN merged
    ELSE LET c == Head(list)
             next == IF \E i \in 1..Len(merged) : merged[i].id = c.id
                     THEN merged ELSE Append(merged, c)
         IN  IF Len(next) >= limit THEN next
             ELSE MergeNew(next, Tail(list), limit)

(* for (c of deCandidates) merged.set(c.id, c): a later candidate of the same
   id replaces the earlier one in place *)
RECURSIVE MergeSet(_, _)
MergeSet(merged, list) ==
    IF list = <<>> THEN merged
    ELSE LET c == Head(list)
             at == {i \in 1..Len(merged) : merged[i].id = c.id}
         IN  MergeSet(IF at = {} THEN Append(merged, c)
                      ELSE [i \in 1..Len(merged) |->
                               IF i \in at THEN c ELSE merged[i]],
                      Tail(list))

LimitFloor == 1
LimitCeil == 20

(* getOpenFoodFactsCandidates on a cache miss, given what the three sources
   answer *)
GetOpenFoodFactsCandidates(limit, deCandidates, globalCandidates, webCandidates) ==
    LET normalizedLimit == Max2(LimitFloor, Min2(limit, LimitCeil))
        afterDe == MergeSet(<<>>, deCandidates)
        afterGlobal == IF Len(afterDe) < normalizedLimit
                       THEN MergeNew(afterDe, globalCandidates, normalizedLimit)
                       ELSE afterDe
        afterWeb == IF Len(afterGlobal) = 0
                    THEN MergeNew(afterGlobal, webCandidates, normalizedLimit)
                    ELSE afterGlobal
    IN  SubSeq(afterWeb, 1, Min2(Len(afterWeb), normalizedLimit))

(* the candidates a lookup of item obtains when the network is in state net *)
LookupCandidates(item, limit, net) ==
    GetOpenFoodFactsCandidates(limit,
        SearchOpenFoodFacts(item, "openfoodfacts_de", net),
        SearchOpenFoodFacts(item, "openfoodfacts_global", net),
        <<>>)

BonusDe == 12
BonusGlobal == 8
BonusWeb == 4
NoTokenScore == 50

SourceBonus(sourceType) ==
    IF sourceType = "openfoodfacts_de" THEN BonusDe
    ELSE IF sourceType = "openfoodfacts_global" THEN BonusGlobal
    ELSE BonusWeb

(* Math.max(0, Math.min(1, roundToSingleDecimal(overlap / size + bonus))) *)
CandidateScore(itemTokens, candidate) ==
    LET candidateTokens == Tokenize(candidate.name \o candidate.brand)
        overlap == Cardinality(itemTokens \cap candidateTokens)
        n == Cardinality(itemTokens)
    IN  Max2(0, Min2(100,
            10 * RoundDiv(100 * overlap + SourceBonus(candidate.sourceType) * n,
                          10 * n)))

(* a candidate goes before the ones of its own score *)
RECURSIVE InsertBeforeEqual(_, _)
InsertBeforeEqual(sorted, c) ==
    IF sorted = <<>> THEN <<c>>
    ELSE IF Head(sorted).score > c.score
         THEN <<Head(sorted)>> \o InsertBeforeEqual(Tail(sorted), c)
         ELSE <<c>> \o sorted

(* Array.prototype.sort((a, b) => b.score - a.score): stable, descending *)
RECURSIVE InsertByScore(_, _)
InsertByScore(sorted, c) ==
    IF sorted = <<>> THEN <<c>>
    ELSE IF Head(sorted).score >= c.score
         THEN <<Head(sorted)>> \o InsertByScore(Tail(sorted), c)
         ELSE <<c>> \o sorted

RECURSIVE SortByScore(_)
SortByScore(list) ==
    IF list = <<>> THEN <<>>
    ELSE InsertByScore(SortByScore(SubSeq(list, 1, Len(list) - 1)), list[Len(list)])

WithScore(c, score) ==
    [id |-> c.id, name |-> c.name, brand |-> c.brand, kcalPer100g |-> c.kcalPer100g,
     proteinPer100g |-> c.proteinPer100g, carbsPer100g |-> c.carbsPer100g,
     fatPer100g |-> c.fatPer100g, sourceType |-> c.sourceType, score |-> score]

(* getRankedFoodCandidates, given the resolver's candidates *)
GetRankedFoodCandidates(item, limit, candidates) ==
    LET itemTokens == Tokenize(item)
        scored == [i \in 1..Len(candidates) |->
                      WithScore(candidates[i],
                                IF itemTokens = {} THEN NoTokenScore
                                ELSE CandidateScore(itemTokens, candidates[i]))]
        ranked == IF itemTokens = {} THEN scored ELSE SortByScore(scored)
    IN  SubSeq(ranked, 1, Min2(Len(ranked), limit))

(* scaleFromPer100g: value * grams / 100, rounded to one decimal *)
ScaleField(per100g, grams) == 10 * RoundDiv(per100g * grams, 1000)

ScaleFromPer100g(c, grams) ==
    [kcal |-> ScaleField(c.kcalPer100g, grams),
     proteinG |-> ScaleField(c.proteinPer100g, grams),
     carbsG |-> ScaleField(c.carbsPer100g, grams),
     fatG |-> ScaleField(c.fatPer100g, grams)]

----------------------------------------------------------------------------
(* Item resolution: findFoodCandidates (agent runtime) *)

(* ResolvedItem (assumptions and provenance texts are not modelled); an absent
   displayName is <<>>: item.displayName ?? item.name *)
Resolved(item, kcal, proteinG, carbsG, fatG, source, confidence) ==
    [name |-> item.name,
     displayName |-> IF item.displayName = <<>> THEN item.name ELSE item.displayName,
     amountGrams |-> item.amountGrams,
     kcal |-> kcal, proteinG |-> proteinG, carbsG |-> carbsG, fatG |-> fatG,
     source |-> source, confidence |-> confidence]

DefaultGrams == 100
UserConfidence == 95
EstimateConfidence == 55
UnresolvedConfidence == 25
LookupConfidenceFloor == 35
LookupConfidenceCeil == 95
RankedLimit == 5
ResolverLimitFloor == 8

EggWords == {"egg", "eggs", "ei", "eier"}

(* the built-in per-100 g profiles of estimateFromCommonFood, first match *)
CommonFoodProfile(name) ==
    IF Range(name) \cap EggWords # {}
    THEN [kcalPer100g |-> 14300, proteinPer100g |-> 1260, carbsPer100g |-> 110,
          fatPer100g |-> 950]
    ELSE IF TextHas(name, {"chicken"})
    THEN [kcalPer100g |-> 16500, proteinPer100g |-> 3100, carbsPer100g |-> 0,
          fatPer100g |-> 360]
    ELSE IF TextHas(name, {"rice"})
    THEN [kcalPer100g |-> 13100, proteinPer100g |-> 270, carbsPer100g |-> 2800,
          fatPer100g |-> 30]
    ELSE IF TextHas(name, {"skyr"})
    THEN [kcalPer100g |-> 6200, proteinPer100g |-> 1100, carbsPer100g |-> 400,
          fatPer100g |-> 20]
    ELSE IF TextHas(name, {"almond"})
    THEN [kcalPer100g |-> 57900, proteinPer100g |-> 2120, carbsPer100g |-> 2160,
          fatPer100g |-> 4990]
    ELSE [kcalPer100g |-> NullNum]

HasCommonFood(name) == CommonFoodProfile(name).kcalPer100g # NullNum

(* estimateFromCommonFood, when a profile matches *)
EstimateFromCommonFood(item) ==
    LET scaled == ScaleFromPer100g(CommonFoodProfile(item.name),
                                   Coalesce(item.amountGrams, DefaultGrams))
    IN  Resolved(item, Coalesce(item.kcal, scaled.kcal),
                 Coalesce(item.proteinG, scaled.proteinG),
                 Coalesce(item.carbsG, scaled.carbsG),
                 Coalesce(item.fatG, scaled.fatG),
                 "estimated", EstimateConfidence)

HasAnyUserNutrition(item) ==
    \/ item.kcal # NullNum
    \/ item.proteinG # NullNum
    \/ item.carbsG # NullNum
    \/ item.fatG # NullNum

(* findFoodCandidates, given the ranked candidates its lookup returns *)
FindFoodCandidates(item, ranked) ==
    IF HasAnyUserNutrition(item)
    THEN Resolved(item, item.kcal, item.proteinG, item.carbsG, item.fatG,
                  "user", UserConfidence)
    ELSE IF ranked # <<>>
    THEN LET top == ranked[1]
             scaled == ScaleFromPer100g(top, Coalesce(item.amountGrams, DefaultGrams))
         IN  Resolved(item, scaled.kcal, scaled.proteinG, scaled.carbsG, scaled.fatG,
                      "lookup",
                      Max2(LookupConfidenceFloor,
                           Min2(LookupConfidenceCeil, Round1(top.score))))
    ELSE IF HasCommonFood(item.name) THEN EstimateFromCommonFood(item)
    ELSE Resolved(item, NullNum, NullNum, NullNum, NullNum,
                  "estimated", UnresolvedConfidence)

(* the resolution of one item mention of a turn, the network being in state net *)
ResolveItem(item, net) ==
    FindFoodCandidates(item,
        GetRankedFoodCandidates(item.name, RankedLimit,
            LookupCandidates(item.name, Max2(RankedLimit, ResolverLimitFloor), net)))

----------------------------------------------------------------------------
(* The store and the tools that write it *)

HighConfidence == 80
MediumConfidence == 50

(* item.confidence >= 0.8 ? "high" : item.confidence >= 0.5 ? "medium" : "low" *)
ConfidenceLabel(score) ==
    IF score >= HighConfidence THEN "high"
    ELSE IF score >= MediumConfidence THEN "medium"
    ELSE "low"

(* a MealEntry row as mealEntry.create writes it from a resolved item *)
EntryRow(mealId, item, date) ==
    [mealId |-> mealId, item |-> item.displayName, amountGrams |-> item.amountGrams,
     kcal |-> item.kcal, proteinG |-> item.proteinG, carbsG |-> item.carbsG,
     fatG |-> item.fatG, source |-> item.source,
     confidence |-> ConfidenceLabel(item.confidence),
     confidenceScore |-> item.confidence, deleted |-> FALSE, berlinDate |-> date]

(* a row after mealEntry.update with the data of a resolved item *)
UpdatedRow(row, item) ==
    [row EXCEPT !.item = item.displayName, !.amountGrams = item.amountGrams,
                !.kcal = item.kcal, !.proteinG = item.proteinG,
                !.carbsG = item.carbsG, !.fatG = item.fatG, !.source = item.source,
                !.confidence = ConfidenceLabel(item.confidence),
                !.confidenceScore = item.confidence]

(* the fields patchMealEntries selects into `existing`, with the row's id *)
Snapshot(ents, id) ==
    [id |-> id, item |-> ents[id].item, amountGrams |-> ents[id].amountGrams,
     kcal |-> ents[id].kcal, proteinG |-> ents[id].proteinG,
     carbsG |-> ents[id].carbsG, fatG |-> ents[id].fatG,
     source |-> ents[id].source, confidence |-> ents[id].confidence,
     confidenceScore |-> ents[id].confidenceScore]

(* the ids of all entries of a meal, deleted or not *)
AllIds(ents, mealId) ==
    FilterIdx([i \in 1..Len(ents) |-> IF ents[i].mealId = mealId THEN 1 ELSE 0],
              {1}, 1)

(* the ids of the non-deleted entries of a meal, ascending *)
LiveIds(ents, mealId) ==
    FilterIdx([i \in 1..Len(ents) |->
                  IF ents[i].mealId = mealId /\ ~ents[i].deleted THEN 1 ELSE 0],
              {1}, 1)

(* the sums of aggregateTotals, before rounding, over the rows ids of ents *)
SumTotals(ents, ids) ==
    [kcal |-> SumSeq([j \in 1..Len(ids) |-> OrZero(ents[ids[j]].kcal)]),
     proteinG |-> SumSeq([j \in 1..Len(ids) |-> OrZero(ents[ids[j]].proteinG)]),
     carbsG |-> SumSeq([j \in 1..Len(ids) |-> OrZero(ents[ids[j]].carbsG)]),
     fatG |-> SumSeq([j \in 1..Len(ids) |-> OrZero(ents[ids[j]].fatG)])]

(* aggregateTotals: each sum rounded to one decimal *)
AggregateTotals(ents, ids) ==
    LET t == SumTotals(ents, ids)
    IN  [kcal |-> Round1(t.kcal), proteinG |-> Round1(t.proteinG),
         carbsG |-> Round1(t.carbsG), fatG |-> Round1(t.fatG)]

WithTotals(meal, t) ==
    [meal EXCEPT !.kcal = t.kcal, !.proteinG = t.proteinG,
                 !.carbsG = t.carbsG, !.fatG = t.fatG]

ZeroTotals == [kcal |-> 0, proteinG |-> 0, carbsG |-> 0, fatG |-> 0]

(* createMeal: the Meal row with the totals of the items, then one entry per
   item, all dated with the turn's Berlin date *)
CreateMeal(ms, ents, items, date) ==
    LET mealId == Len(ms) + 1
        rows == [i \in 1..Len(items) |-> EntryRow(mealId, items[i], date)]
        t == AggregateTotals(rows, [i \in 1..Len(rows) |-> i])
    IN  [meals |-> Append(ms, WithTotals([kcal |-> 0, proteinG |-> 0, carbsG |-> 0,
                                           fatG |-> 0, berlinDate |-> date], t)),
         entries |-> ents \o rows,
         mealId |-> mealId,
         entryIds |-> [i \in 1..Len(items) |-> Len(ents) + i]]

(* overlapScore(a, b) = |tokens(a) /\ tokens(b)| / |tokens(a)|, as a fraction *)
OverlapScore(a, b) ==
    LET aTokens == Tokenize(a)
        bTokens == Tokenize(b)
    IN  IF aTokens = {} \/ bTokens = {} THEN [num |-> 0, den |-> 1]
        ELSE [num |-> Cardinality(aTokens \cap bTokens), den |-> Cardinality(aTokens)]

ScoreGreater(s, t) == s.num * t.den > t.num * s.den

MatchThreshold == 34

(* a reconciliation that accepts any overlap at all *)
ReachesAnyOverlap(s) == s.num > 0

(* bestScore >= 0.34 *)
ReachesThreshold(s) == 100 * s.num >= MatchThreshold * s.den

(* the loop "for (const entry of existing) if (score > bestScore) ..." from
   entry k of the snapshot on; best is a snapshot index, 0 for null *)
RECURSIVE BestMatch(_, _, _, _, _)
BestMatch(name, existing, k, best, bestScore) ==
    IF k > Len(existing) THEN [best |-> best, score |-> bestScore]
    ELSE LET score == OverlapScore(name, existing[k].item)
         IN  IF ScoreGreater(score, bestScore)
             THEN BestMatch(name, existing, k + 1, k, score)
             ELSE BestMatch(name, existing, k + 1, best, bestScore)

(* the non-replace loop of patchMealEntries over items[i..], on store st =
   [entries, revisions, entryIds]; `existing` is the snapshot read at entry *)
RECURSIVE PatchItems(_, _, _, _, _, _)
PatchItems(st, existing, mealId, items, i, date) ==
    IF i > Len(items) THEN st
    ELSE LET item == items[i]
             m == BestMatch(item.name, existing, 1, 0, [num |-> 0, den |-> 1])
         IN  IF m.best # 0 /\ ReachesThreshold(m.score)
             THEN LET id == existing[m.best].id
                      updated == UpdatedRow(st.entries[id], item)
                  IN  PatchItems(
                          [entries |-> [st.entries EXCEPT ![id] = updated],
                           revisions |-> Append(st.revisions,
                               [entryId |-> id, before |-> existing[m.best],
                                after |-> updated]),
                           entryIds |-> Append(st.entryIds, id)],
                          existing, mealId, items, i + 1, date)
             ELSE PatchItems(
                      [entries |-> Append(st.entries, EntryRow(mealId, item, date)),
                       revisions |-> st.revisions,
                       entryIds |-> Append(st.entryIds, Len(st.entries) + 1)],
                      existing, mealId, items, i + 1, date)

(* a replace that reconciles by name like a patch *)
ReplaceByMatching(ents, revs, mealId, items, date) ==
    LET live == LiveIds(ents, mealId)
    IN  PatchItems([entries |-> ents, revisions |-> revs, entryIds |-> <<>>],
                   [k \in 1..Len(live) |-> Snapshot(ents, live[k])],
                   mealId, items, 1, date)

(* the replace branch: soft-delete every non-deleted entry of the meal, then
   create one entry per item *)
ReplaceItems(ents, revs, mealId, items, date) ==
    [entries |-> [i \in 1..Len(ents) |->
                     IF ents[i].mealId = mealId /\ ~ents[i].deleted
                     THEN [ents[i] EXCEPT !.deleted = TRUE] ELSE ents[i]]
                 \o [i \in 1..Len(items) |-> EntryRow(mealId, items[i], date)],
     revisions |-> revs,
     entryIds |-> [i \in 1..Len(items) |-> Len(ents) + i]]

(* a patch that always takes the replace branch *)
PatchReplacingAll(ms, ents, revs, mealId, items, replace, date) ==
    LET st == ReplaceItems(ents, revs, mealId, items, date)
        totals == AggregateTotals(st.entries, LiveIds(st.entries, mealId))
    IN  [meals |-> [ms EXCEPT ![mealId] = WithTotals(ms[mealId], totals)],
         entries |-> st.entries, revisions |-> st.revisions,
         entryIds |-> st.entryIds, totals |-> totals]

(* patchMealEntries on an existing meal; date is the UTC date the new rows get *)
PatchMealEntries(ms, ents, revs, mealId, items, replace, date) ==
    LET live == LiveIds(ents, mealId)
        existing == [k \in 1..Len(live) |-> Snapshot(ents, live[k])]
        st == IF replace THEN ReplaceItems(ents, revs, mealId, items, date)
              ELSE PatchItems([entries |-> ents, revisions |-> revs, entryIds |-> <<>>],
                              existing, mealId, items, 1, date)
        totals == AggregateTotals(st.entries, LiveIds(st.entries, mealId))
    IN  [meals |-> [ms EXCEPT ![mealId] = WithTotals(ms[mealId], totals)],
         entries |-> st.entries, revisions |-> st.revisions,
         entryIds |-> st.entryIds, totals |-> totals]

(* every meal of the day is a target, whatever the scope *)
DeleteTargetsWholeDay(ms, mealId, date, deleteAll) ==
    FilterIdx([i \in 1..Len(ms) |-> ms[i].berlinDate], {date}, 1)

(* the meals deleteMeal targets *)
DeleteTargets(ms, mealId, date, deleteAll) ==
    IF deleteAll THEN FilterIdx([i \in 1..Len(ms) |-> ms[i].berlinDate], {date}, 1)
    ELSE IF mealId = NoId THEN <<>>
    ELSE <<mealId>>

(* deleteMeal: soft-delete the targets' live entries, zero the targets' totals *)
DeleteMeal(ms, ents, mealId, date, deleteAll) ==
    LET ids == DeleteTargets(ms, mealId, date, deleteAll)
    IN  [meals |-> [i \in 1..Len(ms) |->
                       IF i \in Range(ids) THEN WithTotals(ms[i], ZeroTotals) ELSE ms[i]],
         entries |-> [i \in 1..Len(ents) |->
                         IF ents[i].mealId \in Range(ids) /\ ~ents[i].deleted
                         THEN [ents[i] EXCEPT !.deleted = TRUE] ELSE ents[i]],
         mealIds |-> ids]

----------------------------------------------------------------------------
(* The requests the model draws a turn from *)

Corpus ==
    {<<"i", "had", "200g", "chicken", "and", "100g", "rice">>,
     <<"i", "had", "200g", "chicken", "and", "50g", "tofu">>,
     <<"i", "ate", "something", "tasty">>,
     <<"update", "150g", "chicken", "breast">>,
     <<"update", "150g", "grilled", "chicken", "breast">>,
     <<"replace", "meal", "#1", "with", "100g", "chicken">>,
     <<"delete", "this", "meal">>,
     <<"delete", "all", "meals", "today">>,
     <<"delete", "meal", "#2">>,
     <<"get", "rid", "of", "it">>,
     <<"what", "are", "my", "meals">>}

SessionIds == {"s1"}

(* what the reasoning backend may answer to a text: any AgentIntent; the model
   draws from these *)
ModelIntents(text) ==
    IF text = <<"get", "rid", "of", "it">>
    THEN {Intent("delete", NoId, <<>>, "one", 90, "none"),
          Intent("delete", NoId, <<>>, "all", 90, "none"),
          Intent("delete", NoId, <<>>, "one", 60, "which_meal")}
    ELSE IF text = <<"i", "ate", "something", "tasty">>
    THEN {Intent("clarify", NoId, <<>>, "none", 40, "none"),
          Intent("log", NoId, <<>>, "none", 80, "none")}
    ELSE {}

(* the reasoning backend in a turn: "no_key" when OPENAI_API_KEY is not set,
   "ok" when the call answers with an intent; the other replies are the ways
   parseIntentWithModel fails: fetch rejects, the status is not 2xx, the body
   holds no output text, the output text is no JSON *)
BackendFailures == {"network_error", "error_status", "no_output", "bad_json"}

BackendKinds == {"no_key", "ok"} \cup BackendFailures

(* the backends the turns of Spec meet *)
BackendModes == {"no_key", "ok"}

(* the external nutrition source in a turn: answering, or answering every
   request with an error status *)
NetModes == {"up", "down"}

(* fetch rejects: the source cannot be reached at all *)
Unreachable == "unreachable"

TurnNetModes == NetModes \cup {Unreachable}

(* the states of the network a turn can meet: resolution is the only step of
   a turn that uses the network *)
NetModesFor(int) ==
    IF \/ int.items = <<>>
       \/ int.action \in {"clarify", "list", "delete"}
       \/ int.requiresInput # "none"
    THEN {"up"} ELSE TurnNetModes

----------------------------------------------------------------------------
(* The agent runtime: runAgent *)

Request(text, sessionId, activeMealId) ==
    [text |-> text, sessionId |-> sessionId, activeMealId |-> activeMealId]

(* AgentEnvelope and the fields of AgentRunResult the callers read; ok is FALSE
   when runAgent throws and the route answers 502; requiresInput is "none" for
   null, else the question asked; named is the item the message names *)
Envelope(ok, asks, actions, mealIds, entryIds, activeMealId, named) ==
    [ok |-> ok, requiresInput |-> asks, actions |-> actions, mealIds |-> mealIds,
     entryIds |-> entryIds, activeMealId |-> activeMealId, named |-> named]

(* parseIntentWithModel: throws on each failure, else returns the parsed
   answer *)
ParseIntentWithModel(reply, answer) ==
    IF reply \in BackendFailures THEN [threw |-> TRUE]
    ELSE [threw |-> FALSE, intent |-> answer]

(* a runtime that answers a failed classification with a clarification *)
ParseIntentAskingOnFailure(text, mode, answer) ==
    IF mode = "no_key" THEN HeuristicIntent(text)
    ELSE IF ParseIntentWithModel(mode, answer).threw
    THEN Intent("clarify", NoId, <<>>, "none", 0, "none")
    ELSE ParseIntentWithModel(mode, answer).intent

(* lines 330-337: the heuristic intent, replaced by the backend's answer when
   there is an API key and the call does not throw *)
ParseIntent(text, mode, answer) ==
    IF mode = "no_key" THEN HeuristicIntent(text)
    ELSE IF ParseIntentWithModel(mode, answer).threw THEN HeuristicIntent(text)
    ELSE ParseIntentWithModel(mode, answer).intent

(* meal.findFirst({where: {berlinDate}, orderBy: berlinTime desc, id desc}):
   the clock never runs backwards, so the latest meal of a day has the
   highest id *)
LatestMealId(ms, date) ==
    LET today == {i \in 1..Len(ms) : ms[i].berlinDate = date}
    IN  IF today = {} THEN NoId ELSE CHOOSE i \in today : \A j \in today : j <= i

(* a resolution that falls back to the latest meal of the day for a delete too *)
ResolveTargetAlwaysLatest(int, req, ms, date, allowLatestFallback) ==
    IF int.targetMealId # NoId THEN int.targetMealId
    ELSE IF ParseMealIdFromText(req.text) # NoId THEN ParseMealIdFromText(req.text)
    ELSE IF req.activeMealId # NoId THEN req.activeMealId
    ELSE LatestMealId(ms, date)

ResolveTargetMealId(int, req, ms, date, allowLatestFallback) ==
    IF int.targetMealId # NoId THEN int.targetMealId
    ELSE IF ParseMealIdFromText(req.text) # NoId THEN ParseMealIdFromText(req.text)
    ELSE IF req.activeMealId # NoId THEN req.activeMealId
    ELSE IF ~allowLatestFallback THEN NoId
    ELSE LatestMealId(ms, date)

(* upsertSession *)
UpsertSession(ss, sessionId, activeMealId, lastIntent) ==
    [ss EXCEPT ![sessionId] = [activeMealId |-> activeMealId, lastIntent |-> lastIntent]]

(* logAction: one MealAction row *)
LogAction(log, sessionId, mealId, actionType, status, entryIds) ==
    Append(log, [sessionId |-> sessionId, mealId |-> mealId, actionType |-> actionType,
                 status |-> status, entryIds |-> entryIds])

(* a runtime that takes the classifier's word for a delete *)
ExplicitDeleteAssumed(text) == TRUE

(* const explicitDelete = /(delete|remove|erase|clear)/.test(text.toLowerCase()) *)
ExplicitDelete(text) == HasDeleteWord(text)

LowConfidenceBound == 30

(* a runtime without the low-confidence check *)
LowConfidenceNever(resolved) == 0

(* resolvedItems.find((item) => item.confidence < 0.3 && item.kcal === null):
   its index, 0 when there is none *)
LowConfidenceMissing(resolved) ==
    LET low == {i \in 1..Len(resolved) :
                   resolved[i].confidence < LowConfidenceBound /\ resolved[i].kcal = NullNum}
    IN  IF low = {} THEN 0 ELSE CHOOSE i \in low : \A j \in low : i <= j

(* what a turn leaves behind: the store and the turn's record *)
Outcome(ms, ents, revs, ss, log, int, resolved, env) ==
    [meals |-> ms, entries |-> ents, revisions |-> revs, sessions |-> ss,
     mealActions |-> log, intent |-> int, resolvedItems |-> resolved, envelope |-> env]

(* lines 339-364 *)
ClarifyBranch(req, int) ==
    Outcome(meals, entries, revisions,
            UpsertSession(sessions, req.sessionId, req.activeMealId, "clarify"),
            LogAction(mealActions, req.sessionId, req.activeMealId, "clarify",
                      "requires_input", <<>>),
            int, <<>>,
            Envelope(TRUE, IF int.requiresInput # "none" THEN int.requiresInput
                           ELSE "more_detail",
                     <<>>, <<>>, <<>>, req.activeMealId, <<>>))

(* lines 366-398 *)
ListBranch(req, int) ==
    LET listed == Reverse(FilterIdx([i \in 1..Len(meals) |-> meals[i].berlinDate],
                                    {clock.berlinDate}, 1))
        latest == LatestMealId(meals, clock.berlinDate)
        activeMealId == IF latest # NoId THEN latest ELSE req.activeMealId
    IN  Outcome(meals, entries, revisions,
                UpsertSession(sessions, req.sessionId, activeMealId, "list"),
                LogAction(mealActions, req.sessionId, activeMealId, "list", "ok", <<>>),
                int, <<>>,
                Envelope(TRUE, "none", <<"list">>, listed, <<>>, activeMealId, <<>>))

(* a runtime that asks only after it has stored the turn's items *)
AskAfterCreate(req, int, resolved, asks, named) ==
    LET created == CreateMeal(meals, entries, resolved, clock.berlinDate)
    IN  Outcome(created.meals, created.entries, revisions, sessions, mealActions,
                int, resolved,
                Envelope(TRUE, asks, <<>>, <<>>, <<>>, req.activeMealId, named))

(* a turn that returns a question without writing anything *)
AskOnly(req, int, resolved, asks, named) ==
    Outcome(meals, entries, revisions, sessions, mealActions, int, resolved,
            Envelope(TRUE, asks, <<>>, <<>>, <<>>, req.activeMealId, named))

(* a turn in which runAgent throws: the route answers ok=false *)
Thrown(req, int, resolved) ==
    Outcome(meals, entries, revisions, sessions, mealActions, int, resolved,
            Envelope(FALSE, "none", <<>>, <<>>, <<>>, req.activeMealId, <<>>))

(* lines 400-474 *)
DeleteBranch(req, int) ==
    LET targetMealId == ResolveTargetMealId(int, req, meals, clock.berlinDate, FALSE)
        explicitMealRef == ParseMealIdFromText(req.text)
    IN  IF ~ExplicitDelete(req.text)
        THEN AskOnly(req, int, <<>>, "confirm_delete", <<>>)
        ELSE IF /\ int.deleteScope = "one"
                /\ explicitMealRef = NoId
                /\ req.activeMealId = NoId
                /\ targetMealId = NoId
        THEN AskOnly(req, int, <<>>, "delete_target", <<>>)
        ELSE LET deleted == DeleteMeal(meals, entries, targetMealId, clock.berlinDate,
                                       int.deleteScope = "all")
                 activeMealId == IF deleted.mealIds # <<>> THEN NoId
                                 ELSE req.activeMealId
             IN  Outcome(deleted.meals, deleted.entries, revisions,
                         UpsertSession(sessions, req.sessionId, activeMealId, "delete"),
                         LogAction(mealActions, req.sessionId, targetMealId, "delete",
                                   IF deleted.mealIds # <<>> THEN "ok" ELSE "noop", <<>>),
                         int, <<>>,
                         Envelope(TRUE, "none", <<"delete">>, deleted.mealIds, <<>>,
                                  activeMealId, <<>>))

(* lines 506-585 *)
PatchBranch(req, int, resolved) ==
    LET mealId == ResolveTargetMealId(int, req, meals, clock.berlinDate, TRUE)
    IN  IF mealId = NoId
        THEN AskOnly(req, int, resolved, "patch_target", <<>>)
        ELSE IF mealId > Len(meals)
        THEN Thrown(req, int, resolved)
        ELSE LET patched == PatchMealEntries(meals, entries, revisions, mealId, resolved,
                                             int.action = "replace", clock.utcDate)
             IN  Outcome(patched.meals, patched.entries, patched.revisions,
                         UpsertSession(sessions, req.sessionId, mealId, int.action),
                         LogAction(mealActions, req.sessionId, mealId, int.action, "ok",
                                   patched.entryIds),
                         int, resolved,
                         Envelope(TRUE, "none", <<"patch">>, <<mealId>>,
                                  patched.entryIds, mealId, <<>>))

(* lines 587-645 *)
LogBranch(req, int, resolved) ==
    LET created == CreateMeal(meals, entries, resolved, clock.berlinDate)
    IN  Outcome(created.meals, created.entries, revisions,
                UpsertSession(sessions, req.sessionId, created.mealId, "log"),
                LogAction(mealActions, req.sessionId, created.mealId, "log", "ok",
                          created.entryIds),
                int, resolved,
                Envelope(TRUE, "none", <<"log">>, <<created.mealId>>, created.entryIds,
                         created.mealId, <<>>))

(* findFoodCandidates throws: the item has no nutrition of the user's, so
   getRankedFoodCandidates is called, and the fetch of searchOpenFoodFacts
   rejects; nothing between it and the route catches *)
FindThrows(item, net) == ~HasAnyUserNutrition(item) /\ net = Unreachable

(* lines 482-505, then the branch on the action, for the resolved items *)
ResolvedBranch(req, int, resolved) ==
    IF LowConfidenceMissing(resolved) # 0
    THEN AskOnly(req, int, resolved, "low_confidence",
                 resolved[LowConfidenceMissing(resolved)].displayName)
    ELSE IF int.action \in {"patch", "replace"}
    THEN PatchBranch(req, int, resolved)
    ELSE LogBranch(req, int, resolved)

(* lines 476-480: resolve the items one after the other, then go on with them *)
ResolveBranch(req, int, net) ==
    IF \E i \in 1..Len(int.items) : FindThrows(int.items[i], net)
    THEN Thrown(req, int, <<>>)
    ELSE CHOOSE out \in {ResolvedBranch(req, int, resolved) :
                            resolved \in {[i \in 1..Len(int.items) |->
                                              ResolveItem(int.items[i], net)]}} : TRUE

(* runAgent *)
RunAgent(req, int, net) ==
    IF int.action = "clarify" \/ int.requiresInput # "none" THEN ClarifyBranch(req, int)
    ELSE IF int.action = "list" THEN ListBranch(req, int)
    ELSE IF int.action = "delete" THEN DeleteBranch(req, int)
    ELSE ResolveBranch(req, int, net)

----------------------------------------------------------------------------
(* PATCH /api/entry/:id *)

(* the sums recalcMealTotals stores: over every entry of the meal, not rounded *)
RecalcMealTotals(ms, ents, mealId) ==
    [ms EXCEPT ![mealId] = WithTotals(ms[mealId], SumTotals(ents, AllIds(ents, mealId)))]

(* the kcal value a direct edit sends: null, which clears the field *)
PatchValues == {NullNum}

(* the handler with a body {kcal}: update the row, mark it user/high, then
   recalcMealTotals; an unknown id answers 404 and writes nothing *)
PatchEntry(ms, ents, id, kcal) ==
    IF id > Len(ents) THEN [meals |-> ms, entries |-> ents]
    ELSE LET updated == [ents EXCEPT ![id] = [@ EXCEPT !.kcal = kcal, !.source = "user",
                                                       !.confidence = "high"]]
         IN  [meals |-> RecalcMealTotals(ms, updated, updated[id].mealId),
              entries |-> updated]

----------------------------------------------------------------------------
(* The state machine *)

NoSession == [activeMealId |-> NoId, lastIntent |-> "none"]

NoEnvelope == Envelope(TRUE, "none", <<>>, <<>>, <<>>, NoId, <<>>)

NoProbe == [step |-> "idle"]

Init ==
    /\ meals = <<>>
    /\ entries = <<>>
    /\ revisions = <<>>
    /\ sessions = [s \in SessionIds |-> NoSession]
    /\ mealActions = <<>>
    /\ clock = [berlinDate |-> 1, utcDate |-> 0]
    /\ turnNo = 0
    /\ editNo = 0
    /\ request = Request(<<>>, "s1", NoId)
    /\ intent = Intent("clarify", NoId, <<>>, "none", 0, "none")
    /\ resolvedItems = <<>>
    /\ envelope = NoEnvelope
    /\ probe = NoProbe

(* POST /api/agent/log-meal: one run of runAgent on a request of the corpus *)
AgentTurn ==
    /\ turnNo < MaxTurns
    /\ \E text \in Corpus, mode \in BackendModes :
         \E answer \in IF mode = "ok" THEN ModelIntents(text) ELSE {HeuristicIntent(text)} :
          \E net \in NetModesFor(answer), sessionId \in SessionIds,
             activeMealId \in 0..Len(meals) :
           \E req \in {Request(text, sessionId, activeMealId)},
              int \in {ParseIntent(text, mode, answer)} :
            \E out \in {RunAgent(req, int, net)} :
                /\ Len(out.meals) <= MaxMeals
                /\ Len(out.entries) <= MaxEntries
                /\ meals' = out.meals
                /\ entries' = out.entries
                /\ revisions' = out.revisions
                /\ sessions' = out.sessions
                /\ mealActions' = out.mealActions
                /\ request' = req
                /\ intent' = out.intent
                /\ resolvedItems' = out.resolvedItems
                /\ envelope' = out.envelope
    /\ turnNo' = turnNo + 1
    /\ UNCHANGED <<clock, editNo, probe>>

(* PATCH /api/entry/:id with a kcal value *)
EntryPatch ==
    /\ editNo < MaxEdits
    /\ \E id \in 1..(Len(entries) + 1), kcal \in PatchValues :
         \E out \in {PatchEntry(meals, entries, id, kcal)} :
             /\ meals' = out.meals
             /\ entries' = out.entries
    /\ editNo' = editNo + 1
    /\ UNCHANGED <<revisions, sessions, mealActions, clock, turnNo, request, intent,
                   resolvedItems, envelope, probe>>

(* time passes: midnight comes to Berlin first, to UTC after it; the model
   starts in the first hour of Berlin day 1, when UTC is still a day behind *)
Tick ==
    /\ IF clock.utcDate < clock.berlinDate
       THEN clock' = [clock EXCEPT !.utcDate = clock.berlinDate]
       ELSE /\ clock.berlinDate < MaxDay
            /\ clock' = [clock EXCEPT !.berlinDate = clock.berlinDate + 1]
    /\ UNCHANGED <<meals, entries, revisions, sessions, mealActions, turnNo, editNo,
                   request, intent, resolvedItems, envelope, probe>>

Next == AgentTurn \/ EntryPatch \/ Tick

Spec == Init /\ [][Next]_vars

----------------------------------------------------------------------------
(* The draft pipeline's item resolution: enrichItemWithLookup and
   selectCandidateForItem *)

(* toMealItem: the MealItemDraft of an extracted item *)
ToMealItem(item) ==
    [name |-> item.name, displayName |-> item.displayName,
     amountGrams |-> item.amountGrams, kcal |-> item.kcal, proteinG |-> item.proteinG,
     carbsG |-> item.carbsG, fatG |-> item.fatG, source |-> "agent"]

(* estimateCaloriesFromMacros: 4/4/9, rounded to one decimal, only when kcal
   is absent and the three macros are present *)
EstimateCaloriesFromMacros(item) ==
    IF /\ item.kcal = NullNum
       /\ item.proteinG # NullNum
       /\ item.carbsG # NullNum
       /\ item.fatG # NullNum
    THEN [item EXCEPT !.kcal = Round1(item.proteinG * 4 + item.carbsG * 4 + item.fatG * 9),
                      !.source = IF item.source = "agent" THEN "estimated" ELSE item.source]
    ELSE item

ItemNeedsLookup(item) ==
    \/ item.kcal = NullNum
    \/ item.proteinG = NullNum
    \/ item.carbsG = NullNum
    \/ item.fatG = NullNum

(* a resolution that lets the looked-up value win over the user's *)
MergePreferringLookup(item, nutritionForAmount) ==
    [item EXCEPT !.kcal = Coalesce(nutritionForAmount.kcal, item.kcal),
                 !.proteinG = Coalesce(nutritionForAmount.proteinG, item.proteinG),
                 !.carbsG = Coalesce(nutritionForAmount.carbsG, item.carbsG),
                 !.fatG = Coalesce(nutritionForAmount.fatG, item.fatG),
                 !.source = "lookup"]

(* mergeNutritionWithItem: item.field ?? looked-up field *)
MergeNutritionWithItem(item, nutritionForAmount) ==
    [item EXCEPT !.kcal = Coalesce(item.kcal, nutritionForAmount.kcal),
                 !.proteinG = Coalesce(item.proteinG, nutritionForAmount.proteinG),
                 !.carbsG = Coalesce(item.carbsG, nutritionForAmount.carbsG),
                 !.fatG = Coalesce(item.fatG, nutritionForAmount.fatG),
                 !.source = IF /\ item.kcal = NullNum
                               /\ item.proteinG = NullNum
                               /\ item.carbsG = NullNum
                               /\ item.fatG = NullNum
                            THEN "lookup" ELSE "mixed"]

EnrichLimit == 1

(* enrichItemWithLookup, the network being in state net *)
EnrichItemWithLookup(item, net) ==
    LET candidates == LookupCandidates(item.name, EnrichLimit, net)
    IN  IF ~ItemNeedsLookup(item) \/ candidates = <<>> THEN item
        ELSE MergeNutritionWithItem(item,
                 ScaleFromPer100g(candidates[1],
                                  Coalesce(item.amountGrams, DefaultGrams)))

HasUserProvidedNutrition(item) ==
    \/ item.kcal # NullNum
    \/ item.proteinG # NullNum
    \/ item.carbsG # NullNum
    \/ item.fatG # NullNum

ItemStopWords == {"from", "the", "and", "with", "of", "a", "an", "to", "for", "in", "rewe"}

(* tokenize of the draft pipeline: tokens of two characters or more that are
   no stop words *)
ItemTokenize(words) ==
    {w \in Range(words) : Len(w) >= 2 /\ w \notin ItemStopWords /\ w \notin HashWords}

(* candidateOverlapScore, as a fraction (the names of the model repeat no
   token) *)
CandidateOverlapScore(itemName, candidateName, brand) ==
    LET itemTokens == ItemTokenize(itemName)
        candidateTokens == ItemTokenize(candidateName) \cup ItemTokenize(brand)
    IN  IF itemTokens = {} THEN [num |-> 0, den |-> 1]
        ELSE [num |-> Cardinality(itemTokens \cap candidateTokens),
              den |-> Cardinality(itemTokens)]

EggTerms == {"egg", "eggs", "ei", "eier"}
KcalCeil == 90000
MacroSumCeil == 10500
EggCarbsCeil == 1000

CandidateIsPlausibleForItem(itemName, c) ==
    LET macroSum == c.proteinPer100g + c.carbsPer100g + c.fatPer100g
        looksLikeEggItem == ItemTokenize(itemName) \cap EggTerms # {}
        candidateHasEggTerm == ItemTokenize(c.name \o c.brand) \cap EggTerms # {}
    IN  /\ ~(c.kcalPer100g <= 0 \/ c.kcalPer100g > KcalCeil)
        /\ ~(macroSum <= 0 \/ macroSum > MacroSumCeil)
        /\ looksLikeEggItem => (candidateHasEggTerm /\ ~(c.carbsPer100g > EggCarbsCeil))
        /\ CandidateOverlapScore(itemName, c.name, c.brand).num > 0

(* bestFallbackCandidate: the first plausible candidate of highest overlap,
   as an index into candidates; 0 for undefined *)
BestFallbackCandidate(item, candidates) ==
    LET plausible == {i \in 1..Len(candidates) :
                         CandidateIsPlausibleForItem(item.name, candidates[i])}
        overlap(i) == CandidateOverlapScore(item.name, candidates[i].name,
                                            candidates[i].brand)
    IN  IF plausible = {} THEN 0
        ELSE CHOOSE i \in plausible :
                \A j \in plausible :
                    /\ ~ScoreGreater(overlap(j), overlap(i))
                    /\ j < i => ScoreGreater(overlap(i), overlap(j))

(* what the reasoning step answers: ok is FALSE for a failed call or an empty
   output *)
Selection(ok, decision, selectedCandidateId, estimated) ==
    [ok |-> ok, decision |-> decision, selectedCandidateId |-> selectedCandidateId,
     estimated |-> estimated]

NoNutrition == [kcal |-> NullNum, proteinG |-> NullNum, carbsG |-> NullNum, fatG |-> NullNum]

SelectLimit == 8

(* selectCandidateForItem, given the answer of the reasoning step *)
SelectCandidateForItem(item, net, selection) ==
    LET candidates == LookupCandidates(item.name, SelectLimit, net)
        ask == [item |-> item, requiresClarification |-> TRUE]
        selectedAt == {i \in 1..Len(candidates) :
                          candidates[i].id = selection.selectedCandidateId}
        selected == IF selectedAt = {} THEN 0
                    ELSE CHOOSE i \in selectedAt : \A j \in selectedAt : i <= j
        candidate == IF selected # 0
                        /\ CandidateIsPlausibleForItem(item.name, candidates[selected])
                     THEN selected
                     ELSE BestFallbackCandidate(item, candidates)
        estimated ==
            EstimateCaloriesFromMacros(
                [item EXCEPT !.kcal = Coalesce(item.kcal, selection.estimated.kcal),
                             !.proteinG = Coalesce(item.proteinG, selection.estimated.proteinG),
                             !.carbsG = Coalesce(item.carbsG, selection.estimated.carbsG),
                             !.fatG = Coalesce(item.fatG, selection.estimated.fatG),
                             !.source = "estimated"])
    IN  IF HasUserProvidedNutrition(item)
        THEN [item |-> EstimateCaloriesFromMacros(item), requiresClarification |-> FALSE]
        ELSE IF candidates = <<>> THEN ask
        ELSE IF ~selection.ok THEN ask
        ELSE IF selection.decision = "clarify" THEN ask
        ELSE IF /\ selection.decision = "select_candidate"
                /\ selection.selectedCandidateId # ""
                /\ candidate # 0
        THEN LET scaled == ScaleFromPer100g(candidates[candidate],
                                            Coalesce(item.amountGrams, DefaultGrams))
             IN  [item |-> EstimateCaloriesFromMacros(
                               [item EXCEPT !.kcal = Coalesce(item.kcal, scaled.kcal),
                                            !.proteinG = Coalesce(item.proteinG, scaled.proteinG),
                                            !.carbsG = Coalesce(item.carbsG, scaled.carbsG),
                                            !.fatG = Coalesce(item.fatG, scaled.fatG),
                                            !.source = "lookup"]),
                  requiresClarification |-> FALSE]
        ELSE IF ~HasUserProvidedNutrition(estimated) THEN ask
        ELSE [item |-> estimated, requiresClarification |-> FALSE]

----------------------------------------------------------------------------
(* Item resolution on its own: one item mention, resolved by one of the three
   resolvers *)

ProbeNames == {<<"rice">>, <<"tofu">>, <<"egg", "fried", "rice">>}
ProbeGrams == {NullNum, 150}
ProbeKcal == {NullNum, 21000}
ProbeProtein == {NullNum, 1000}
ProbeCarbs == {NullNum, 2000}
ProbeFat == {NullNum, 1000}

ProbeItems ==
    {ItemInput(n, n, g, k, p, c, f) :
        n \in ProbeNames, g \in ProbeGrams, k \in ProbeKcal, p \in ProbeProtein,
        c \in ProbeCarbs, f \in ProbeFat}

(* the answers of the reasoning step the model draws from *)
Selections ==
    {Selection(FALSE, "clarify", "", NoNutrition),
     Selection(TRUE, "clarify", "", NoNutrition),
     Selection(TRUE, "select_candidate", "off_rice1", NoNutrition),
     Selection(TRUE, "select_candidate", "off_skyr1", NoNutrition),
     Selection(TRUE, "estimate", "", NoNutrition),
     Selection(TRUE, "estimate", "", [NoNutrition EXCEPT !.kcal = 12000])}

ProbeResult(step, item, net, result, asked) ==
    [step |-> step, item |-> item, net |-> net,
     result |-> [kcal |-> result.kcal, proteinG |-> result.proteinG,
                 carbsG |-> result.carbsG, fatG |-> result.fatG,
                 source |-> result.source],
     asked |-> asked]

InitResolve ==
    /\ meals = <<>>
    /\ entries = <<>>
    /\ revisions = <<>>
    /\ sessions = [s \in SessionIds |-> NoSession]
    /\ mealActions = <<>>
    /\ clock = [berlinDate |-> 1, utcDate |-> 1]
    /\ turnNo = 0
    /\ editNo = 0
    /\ request = Request(<<>>, "s1", NoId)
    /\ intent = Intent("clarify", NoId, <<>>, "none", 0, "none")
    /\ resolvedItems = <<>>
    /\ envelope = NoEnvelope
    /\ \E item \in ProbeItems, net \in NetModes :
          probe = [step |-> "input", item |-> item, net |-> net]

StoreIdle ==
    UNCHANGED <<meals, entries, revisions, sessions, mealActions, clock, turnNo, editNo,
                request, intent, resolvedItems, envelope>>

(* the runtime's resolver: findFoodCandidates *)
ProbeFind ==
    /\ probe.step = "input"
    /\ probe' = ProbeResult("found", probe.item, probe.net,
                            ResolveItem(probe.item, probe.net), FALSE)
    /\ StoreIdle

(* the draft pipeline's enrichment: enrichItemWithLookup *)
ProbeEnrich ==
    /\ probe.step = "input"
    /\ probe' = ProbeResult("enriched", probe.item, probe.net,
                            EnrichItemWithLookup(ToMealItem(probe.item), probe.net), FALSE)
    /\ StoreIdle

(* the draft pipeline's selection: selectCandidateForItem *)
ProbeSelect ==
    /\ probe.step = "input"
    /\ \E selection \in Selections :
         \E out \in {SelectCandidateForItem(ToMealItem(probe.item), probe.net, selection)} :
            probe' = ProbeResult("selected", probe.item, probe.net, out.item,
                                 out.requiresClarification)
    /\ StoreIdle

NextResolve == ProbeFind \/ ProbeEnrich \/ ProbeSelect

ResolveSpec == InitResolve /\ [][NextResolve]_vars

----------------------------------------------------------------------------
(* Properties of the agent turns and the direct edits *)

(* a step that is one agent turn *)
IsTurn == turnNo' # turnNo

StoreUnchanged == meals' = meals /\ entries' = entries /\ revisions' = revisions

(* the non-deleted entries of a meal, as a set of ids *)
LiveSet(ents, mealId) ==
    {i \in 1..Len(ents) : ents[i].mealId = mealId /\ ~ents[i].deleted}

SumOver(ents, ids, field) ==
    SumSeq([j \in 1..Len(ids) |-> IF ents[ids[j]][field] = NullNum THEN 0
                                  ELSE ents[ids[j]][field]])

(* C1: in every reachable state, after any sequence of log, patch, replace and
   delete turns and direct entry edits, each Meal's stored kcal, protein,
   carbs and fat equal the sums of those fields over the meal's non-deleted
   entries, null counted as 0 *)
C1_TotalsEqualLiveSum ==
    \A m \in 1..Len(meals) :
        LET live == LiveIds(entries, m)
        IN  /\ meals[m].kcal = SumOver(entries, live, "kcal")
            /\ meals[m].proteinG = SumOver(entries, live, "proteinG")
            /\ meals[m].carbsG = SumOver(entries, live, "carbsG")
            /\ meals[m].fatG = SumOver(entries, live, "fatG")

(* C2: a turn whose intent is delete while the text has none of delete, remove,
   erase, clear returns a request for input (the confirmation request, unless
   the classifier itself asked a question), soft-deletes no entry and zeroes
   no meal totals *)
C2_DeleteNeedsExplicitWord ==
    [][(/\ IsTurn
        /\ intent'.action = "delete"
        /\ ~TextHas(request'.text, {"delete", "remove", "erase", "clear"}))
       => /\ envelope'.requiresInput # "none"
          /\ intent'.requiresInput = "none" => envelope'.requiresInput = "confirm_delete"
          /\ envelope'.actions = <<>>
          /\ entries' = entries
          /\ meals' = meals]_vars

(* a delete the backend classified, without the word, on an open meal that
   has non-deleted entries, answered by the confirmation request *)
C2_Witness ==
    /\ turnNo = 2
    /\ intent.action = "delete"
    /\ intent.deleteScope = "one"
    /\ request.text = <<"get", "rid", "of", "it">>
    /\ request.activeMealId = 1
    /\ envelope.requiresInput = "confirm_delete"
    /\ LiveSet(entries, 1) # {}
    /\ meals[1].kcal > 0

(* C3: every turn that returns a non-null requiresInput leaves the Meal,
   MealEntry and EntryRevision rows unchanged *)
C3_RequiresInputWritesNoRows ==
    [][(IsTurn /\ envelope'.requiresInput # "none") => StoreUnchanged]_vars

(* a delete without a target, asked back while a meal with entries exists *)
C3_Witness ==
    /\ turnNo = 2
    /\ envelope.requiresInput = "delete_target"
    /\ request.text = <<"delete", "this", "meal">>
    /\ LiveSet(entries, 1) # {}

(* the item mentions of a turn resolved below 0.3 with null kcal *)
LowItems(resolved) ==
    {i \in 1..Len(resolved) : resolved[i].confidence < 30 /\ resolved[i].kcal = NullNum}

(* C4: in a log, patch or replace turn that reaches resolution, if any
   resolved item has confidence below 0.3 and null kcal, the turn ends with a
   clarification naming that item (the first such), and none of the turn's
   items is persisted *)
C4_LowConfidenceBlocksTurn ==
    [][(/\ IsTurn
        /\ intent'.action \in {"log", "patch", "replace"}
        /\ intent'.requiresInput = "none"
        /\ LowItems(resolvedItems') # {})
       => /\ envelope'.requiresInput = "low_confidence"
          /\ \E i \in LowItems(resolvedItems') :
                /\ \A j \in LowItems(resolvedItems') : i <= j
                /\ envelope'.named = resolvedItems'[i].displayName
          /\ envelope'.entryIds = <<>>
          /\ StoreUnchanged]_vars

(* chicken resolved with confidence, tofu not: the turn asks about the tofu *)
C4_Witness ==
    /\ envelope.requiresInput = "low_confidence"
    /\ Len(resolvedItems) = 2
    /\ resolvedItems[1].confidence >= 30
    /\ resolvedItems[1].kcal # NullNum
    /\ resolvedItems[2].confidence < 30
    /\ envelope.named = <<"50g", "tofu">>

(* C5: every turn that completes or asks for clarification appends exactly one
   MealAction row, and every turn that returns a non-null requiresInput
   appends one with status requires_input *)
C5_EveryTurnIsAudited ==
    [][(IsTurn /\ envelope'.ok)
       => /\ Len(mealActions') = Len(mealActions) + 1
          /\ envelope'.requiresInput # "none"
                => mealActions'[Len(mealActions')].status = "requires_input"]_vars

(* a patch or replace turn that went through to patchMealEntries *)
Reconciled(action) ==
    /\ IsTurn
    /\ intent'.action = action
    /\ envelope'.ok
    /\ envelope'.requiresInput = "none"

(* the name-overlap score of an item name against an entry name is at least
   0.34: shared tokens over the tokens of the item name *)
OverlapAtLeast34(name, entryName) ==
    /\ Tokenize(name) # {}
    /\ 100 * Cardinality(Tokenize(name) \cap Tokenize(entryName))
          >= 34 * Cardinality(Tokenize(name))

SharedTokens(name, entryName) == Cardinality(Tokenize(name) \cap Tokenize(entryName))

(* the row carries the nutrition, amount and name of the resolved item *)
RowCarries(row, item) ==
    /\ row.item = item.displayName
    /\ row.amountGrams = item.amountGrams
    /\ row.kcal = item.kcal
    /\ row.proteinG = item.proteinG
    /\ row.carbsG = item.carbsG
    /\ row.fatG = item.fatG
    /\ ~row.deleted

(* C6: in a patch reconciliation, for each resolved item: when the best
   name-overlap score among the meal's non-deleted entries is at least 0.34,
   the entry with the highest score is updated and exactly one EntryRevision
   is written for it; when the best score is below 0.34 or the meal has no
   non-deleted entry, a new entry is inserted and no revision is written *)
C6_PatchMatchesBestOverlap ==
    [][Reconciled("patch") =>
        LET m == envelope'.mealIds[1]
            live == LiveSet(entries, m)
            items == resolvedItems'
            ids == envelope'.entryIds
            matched == {k \in 1..Len(items) :
                           \E e \in live : OverlapAtLeast34(items[k].name, entries[e].item)}
            fresh == (Len(revisions) + 1)..Len(revisions')
        IN  /\ Len(ids) = Len(items)
            /\ Len(revisions') = Len(revisions) + Cardinality(matched)
            /\ Len(entries') = Len(entries) + Len(items) - Cardinality(matched)
            /\ \A k \in 1..Len(items) :
                 IF k \in matched
                 THEN /\ ids[k] \in live
                      /\ \A e \in live :
                            SharedTokens(items[k].name, entries[e].item)
                               <= SharedTokens(items[k].name, entries[ids[k]].item)
                      /\ \E r \in fresh : revisions'[r].entryId = ids[k]
                      /\ (\A j \in (k + 1)..Len(items) : ids[j] # ids[k])
                            => RowCarries(entries'[ids[k]], items[k])
                 ELSE /\ ids[k] \in (Len(entries) + 1)..Len(entries')
                      /\ entries'[ids[k]].mealId = m
                      /\ RowCarries(entries'[ids[k]], items[k])
                      /\ \A r \in fresh : revisions'[r].entryId # ids[k]]_vars

(* "150g chicken breast" corrected the "200g chicken" entry: one revision,
   holding the row as it was *)
C6_Witness ==
    /\ intent.action = "patch"
    /\ envelope.actions = <<"patch">>
    /\ Len(revisions) = 1
    /\ revisions[1].before.amountGrams = 200
    /\ entries[revisions[1].entryId].amountGrams = 150
    /\ Len(entries) = 2

(* C7: after a replace turn on meal M the non-deleted entries of M are exactly
   the entries created from the turn's resolved items; every entry that was
   non-deleted before is soft-deleted and none is updated in place, whatever
   its name overlap with the new items *)
C7_ReplaceKeepsOnlyNewEntries ==
    [][Reconciled("replace") =>
        LET m == envelope'.mealIds[1]
            items == resolvedItems'
            created == (Len(entries) + 1)..(Len(entries) + Len(items))
        IN  /\ Len(entries') = Len(entries) + Len(items)
            /\ \A e \in 1..Len(entries) :
                 entries'[e] = IF e \in LiveSet(entries, m)
                               THEN [entries[e] EXCEPT !.deleted = TRUE]
                               ELSE entries[e]
            /\ LiveSet(entries', m) = created
            /\ Range(envelope'.entryIds) = created
            /\ \A k \in 1..Len(items) :
                 /\ entries'[Len(entries) + k].mealId = m
                 /\ RowCarries(entries'[Len(entries) + k], items[k])
            /\ revisions' = revisions]_vars

(* a meal holding "200g chicken" replaced by "100g chicken": the old row is
   soft-deleted although the names overlap, the new row is the live one *)
C7_Witness ==
    /\ intent.action = "replace"
    /\ envelope.actions = <<"patch">>
    /\ \E e \in 1..Len(entries) :
          /\ entries[e].mealId = 1
          /\ entries[e].deleted
          /\ entries[e].item = <<"200g", "chicken">>
    /\ \E e \in LiveSet(entries, 1) : entries[e].item = <<"100g", "chicken">>
    /\ revisions = <<>>

(* C8: a patch turn on meal M changes only the entries its items matched, or
   adds entries; every other entry stays as it was, so the meal has at least
   as many non-deleted entries as before *)
C8_PatchLeavesOthersAlone ==
    [][Reconciled("patch") =>
        LET m == envelope'.mealIds[1]
            items == resolvedItems'
        IN  /\ Len(entries') >= Len(entries)
            /\ \A e \in 1..Len(entries) :
                 \/ entries'[e] = entries[e]
                 \/ /\ e \in LiveSet(entries, m)
                    /\ e \in Range(envelope'.entryIds)
                    /\ \E k \in 1..Len(items) :
                          OverlapAtLeast34(items[k].name, entries[e].item)
                    /\ ~entries'[e].deleted
            /\ LiveSet(entries, m) \subseteq LiveSet(entries', m)]_vars

(* the chicken of a chicken-and-rice meal corrected: the rice row is as it
   was and the meal still has its two entries *)
C8_Witness ==
    /\ intent.action = "patch"
    /\ envelope.actions = <<"patch">>
    /\ Cardinality(LiveSet(entries, 1)) = 2
    /\ \E e \in LiveSet(entries, 1) :
          entries[e].item = <<"100g", "rice">> /\ entries[e].amountGrams = 100
    /\ \E e \in LiveSet(entries, 1) :
          entries[e].item = <<"150g", "chicken", "breast">>

NutritionFields == {"kcal", "proteinG", "carbsG", "fatG"}

(* C9: for each of kcal, protein, carbs and fat independently, a value the
   user supplied in the item mention appears unchanged in the resolved item,
   whichever resolver produced it *)
C9_UserValuesKept ==
    probe.step # "input" =>
        \A f \in NutritionFields :
            probe.item[f] # NullNum => probe.result[f] = probe.item[f]

(* rice with the user's kcal and nothing else, enriched by lookup: the kcal is
   the user's, the protein is the looked-up one *)
C9_Witness ==
    /\ probe.step = "enriched"
    /\ probe.item.kcal = 21000
    /\ probe.item.proteinG = NullNum
    /\ probe.result.kcal = 21000
    /\ probe.result.proteinG = 410
    /\ probe.result.source = "mixed"

(* C10: when the user supplies only some of kcal, protein, carbs and fat for
   an item that the lookup knows, the remaining fields of the resolved item
   are filled from the lookup rather than left null *)
C10_PartialOverrideStillFilled ==
    (/\ probe.step # "input"
     /\ \E f \in NutritionFields : probe.item[f] # NullNum
     /\ LookupCandidates(probe.item.name, RankedLimit, probe.net) # <<>>)
    => \A f \in NutritionFields : probe.result[f] # NullNum

----------------------------------------------------------------------------
(* Properties of the candidate guard *)

HasEggToken(words) == Range(words) \cap {"egg", "eggs", "ei", "eier"} # {}

(* the nutrition the resolver left blank fields with is the candidate's,
   scaled to the item's grams *)
FilledFrom(c) ==
    LET scaled == ScaleFromPer100g(c, Coalesce(probe.item.amountGrams, DefaultGrams))
    IN  /\ probe.result.source \in {"lookup", "mixed"}
        /\ \E f \in NutritionFields : probe.item[f] = NullNum
        /\ \A f \in NutritionFields :
              probe.item[f] = NullNum => probe.result[f] = scaled[f]

(* C11: for an item whose name contains an egg token (egg, eggs, ei, eier), no
   candidate whose name and brand lack an egg token is used to fill the
   item's nutrition, whether the reasoning step nominated it, it was chosen
   as fallback, or it is the top-ranked candidate *)
C11_EggItemNeverFilledFromNonEgg ==
    (probe.step # "input" /\ HasEggToken(probe.item.name))
    => \A c \in Range(LookupCandidates(probe.item.name, SelectLimit, probe.net)) :
          ~HasEggToken(c.name \o c.brand) => ~FilledFrom(c)

----------------------------------------------------------------------------
(* Agent turns under every behaviour of the reasoning backend *)

(* what a failed call answers: nothing *)
NoAnswer == Intent("clarify", NoId, <<>>, "none", 0, "none")

(* one run of runAgent, the backend and the network of the turn on record *)
BackendTurn ==
    /\ turnNo < MaxTurns
    /\ \E text \in Corpus, backend \in BackendKinds :
         \E answer \in IF backend = "ok" THEN ModelIntents(text) ELSE {NoAnswer} :
          \E int \in {ParseIntent(text, backend, answer)} :
           \E net \in NetModesFor(int), sessionId \in SessionIds,
              activeMealId \in 0..Len(meals) :
            \E req \in {Request(text, sessionId, activeMealId)} :
             \E out \in {RunAgent(req, int, net)} :
                /\ Len(out.meals) <= MaxMeals
                /\ Len(out.entries) <= MaxEntries
                /\ meals' = out.meals
                /\ entries' = out.entries
                /\ revisions' = out.revisions
                /\ sessions' = out.sessions
                /\ mealActions' = out.mealActions
                /\ request' = req
                /\ intent' = out.intent
                /\ resolvedItems' = out.resolvedItems
                /\ envelope' = out.envelope
                /\ probe' = [step |-> "turn", backend |-> backend, net |-> net]
    /\ turnNo' = turnNo + 1
    /\ UNCHANGED <<clock, editNo>>

NextBackend == BackendTurn

BackendSpec == Init /\ [][NextBackend]_vars

(* C12: if the reasoning-backend call for intent classification fails (non-2xx
   status, missing output, unparsable JSON or network error), the turn acts
   on the heuristic intent and yields the same result and the same store
   writes as the same turn run with no API key configured *)
C12_FailedBackendFallsBack ==
    [][(IsTurn /\ probe'.backend \in {"network_error", "error_status", "no_output",
                                      "bad_json"})
       => /\ intent' = HeuristicIntent(request'.text)
          /\ Outcome(meals', entries', revisions', sessions', mealActions', intent',
                     resolvedItems', envelope')
                = RunAgent(request', intent', probe'.net)]_vars

(* the backend answered 5xx to "delete all meals today" while a meal was
   open: the heuristic delete went through *)
C12_Witness ==
    /\ probe.step = "turn"
    /\ probe.backend = "error_status"
    /\ turnNo = 2
    /\ request.text = <<"delete", "all", "meals", "today">>
    /\ envelope.actions = <<"delete">>
    /\ envelope.mealIds = <<1>>
    /\ LiveSet(entries, 1) = {}

(* C13: if a request to an external nutrition source fails, by HTTP error
   status or by a thrown network error, resolution gets no candidates from
   the source and each item goes to the built-in estimate or the turn to the
   clarification branch; the turn itself does not fail *)
C13_SourceFailureIsNotFatal ==
    [][(/\ IsTurn
        /\ probe'.net \in {"down", "unreachable"}
        /\ intent'.action = "log"
        /\ intent'.requiresInput = "none"
        /\ intent'.items # <<>>)
       => /\ envelope'.ok
          /\ Len(resolvedItems') = Len(intent'.items)
          /\ \A i \in 1..Len(resolvedItems') : resolvedItems'[i].source = "estimated"
          /\ \/ envelope'.requiresInput = "low_confidence"
             \/ envelope'.actions = <<"log">>]_vars

----------------------------------------------------------------------------
(* The candidate cache: getOpenFoodFactsCandidates with lookupCache, called
   by getRankedFoodCandidates.  Time is counted in minutes. *)

MaxNow == 5
MaxCalls == 2

(* LOOKUP_CACHE_TTL_MS, in minutes *)
LookupCacheTtl == 5

(* an item string as typed: its words, in upper case or not, with blanks
   around it or not *)
RawName(words, shouted, padded) == [words |-> words, shouted |-> shouted, padded |-> padded]

ToLowerCase(raw) == [raw EXCEPT !.shouted = FALSE]

Trim(raw) == [raw EXCEPT !.padded = FALSE]

(* `${item.toLowerCase().trim()}::${Math.max(1, Math.min(limit, 20))}` *)
CacheKey(raw, limit) ==
    [name |-> Trim(ToLowerCase(raw)), limit |-> Max2(LimitFloor, Min2(limit, LimitCeil))]

RawNames ==
    {RawName(w, b, b) : w \in {<<"rice">>, <<"tofu">>}, b \in BOOLEAN}

RankLimits == {5, 10}

CacheKeys == {CacheKey(raw, Max2(limit, ResolverLimitFloor)) : raw \in RawNames, limit \in RankLimits}

(* lookupCache.get of a key never set *)
NoCacheEntry == [expiresAt |-> 0, value |-> <<>>]

(* a cache that never answers *)
CacheFreshNever(cached, now) == FALSE

(* cached && cached.expiresAt > Date.now() *)
CacheFresh(cached, now) == cached # NoCacheEntry /\ cached.expiresAt > now

(* getOpenFoodFactsCandidates with the cache: the candidates, the cache
   after the call and the number of upstream requests made *)
CachedCandidates(cache, now, raw, limit, net) ==
    LET key == CacheKey(raw, limit)
        de == SearchOpenFoodFacts(raw.words, "openfoodfacts_de", net)
        results == LookupCandidates(raw.words, limit, net)
    IN  IF CacheFresh(cache[key], now)
        THEN [value |-> cache[key].value, cache |-> cache, requests |-> 0]
        ELSE [value |-> results,
              cache |-> [cache EXCEPT ![key] = [expiresAt |-> now + LookupCacheTtl,
                                                value |-> results]],
              requests |-> 1 + (IF Len(de) < key.limit THEN 1 ELSE 0)
                            + (IF results = <<>> THEN 1 ELSE 0)]

(* getRankedFoodCandidates with the cache; tokenize lower-cases the item *)
CachedRanked(cache, now, raw, limit, net) ==
    LET got == CachedCandidates(cache, now, raw, Max2(limit, ResolverLimitFloor), net)
    IN  [ranked |-> GetRankedFoodCandidates(ToLowerCase(raw).words, limit, got.value),
         cache |-> got.cache, requests |-> got.requests]

(* the resolutions made so far, by lowercased-trimmed name and limit: when the
   result was last stored (-1 for never) and what that resolution returned *)
NoStored == [at |-> -1, ranked |-> <<>>]

ResolutionKeys == {[name |-> Trim(ToLowerCase(raw)), limit |-> limit] :
                      raw \in RawNames, limit \in RankLimits}

InitCache ==
    /\ meals = <<>>
    /\ entries = <<>>
    /\ revisions = <<>>
    /\ sessions = [s \in SessionIds |-> NoSession]
    /\ mealActions = <<>>
    /\ clock = [berlinDate |-> 1, utcDate |-> 1]
    /\ turnNo = 0
    /\ editNo = 0
    /\ request = Request(<<>>, "s1", NoId)
    /\ intent = Intent("clarify", NoId, <<>>, "none", 0, "none")
    /\ resolvedItems = <<>>
    /\ envelope = NoEnvelope
    /\ probe = [step |-> "cache", lookupCache |-> [k \in CacheKeys |-> NoCacheEntry],
                now |-> 0, calls |-> 0, stored |-> [k \in ResolutionKeys |-> NoStored],
                last |-> [raw |-> RawName(<<>>, FALSE, FALSE), limit |-> 0, net |-> "up",
                          ranked |-> <<>>, requests |-> 0]]

(* one call of getRankedFoodCandidates *)
CacheResolve ==
    /\ probe.calls < MaxCalls
    /\ \E raw \in RawNames, limit \in RankLimits, net \in NetModes :
         \E out \in {CachedRanked(probe.lookupCache, probe.now, raw, limit, net)} :
            probe' = [probe EXCEPT
                        !.lookupCache = out.cache,
                        !.calls = @ + 1,
                        !.stored = IF out.requests = 0 THEN @
                                   ELSE [@ EXCEPT ![[name |-> Trim(ToLowerCase(raw)),
                                                     limit |-> limit]] =
                                            [at |-> probe.now, ranked |-> out.ranked]],
                        !.last = [raw |-> raw, limit |-> limit, net |-> net,
                                  ranked |-> out.ranked, requests |-> out.requests]]
    /\ StoreIdle

(* a minute passes *)
CacheTick ==
    /\ probe.now < MaxNow
    /\ probe' = [probe EXCEPT !.now = @ + 1]
    /\ StoreIdle

NextCache == CacheResolve \/ CacheTick

CacheSpec == InitCache /\ [][NextCache]_vars

(* C14: two resolutions of the same lowercased-trimmed item name with the same
   limit, the second made less than 5 minutes after the first stored its
   result, return identical candidates and scores, and the second issues no
   upstream request *)
C14_RepeatWithinTtlIsCached ==
    [][(probe'.calls # probe.calls) =>
        LET k == [name |-> [words |-> probe'.last.raw.words, shouted |-> FALSE,
                            padded |-> FALSE],
                  limit |-> probe'.last.limit]
        IN  (probe.stored[k].at >= 0 /\ probe.now - probe.stored[k].at < 5)
            => /\ probe'.last.ranked = probe.stored[k].ranked
               /\ probe'.last.requests = 0]_vars

(* "RICE " resolved four minutes after "rice", the source now down: the
   candidate and its score of the first resolution, and no request *)
C14_Witness ==
    /\ probe.step = "cache"
    /\ probe.calls = 2
    /\ probe.now = 4
    /\ probe.last.raw = RawName(<<"rice">>, TRUE, TRUE)
    /\ probe.last.net = "down"
    /\ probe.last.requests = 0
    /\ Len(probe.last.ranked) = 1
    /\ probe.last.ranked[1].score = 100
    /\ probe.stored[[name |-> RawName(<<"rice">>, FALSE, FALSE), limit |-> 5]].at = 0

----------------------------------------------------------------------------
(* The day summary: GET /api/day-summary and the tool summarizeDay *)

(* mealEntry.findMany({where: {berlinDate: date}}): the ids, ascending *)
DayIds(ents, date) ==
    FilterIdx([i \in 1..Len(ents) |-> IF ents[i].berlinDate = date THEN 1 ELSE 0], {1}, 1)

(* mealEntry.findMany({where: {berlinDate, deletedAt: null}}) *)
LiveDayIds(ents, date) ==
    FilterIdx([i \in 1..Len(ents) |->
                  IF ents[i].berlinDate = date /\ ~ents[i].deleted THEN 1 ELSE 0],
              {1}, 1)

(* GET /api/day-summary?date= : totals, rounded to one decimal, and the count *)
GetDaySummary(ents, date) ==
    [totals |-> AggregateTotals(ents, DayIds(ents, date)),
     entryCount |-> Len(DayIds(ents, date))]

(* summarizeDay(berlinDate) *)
SummarizeDay(ents, date) ==
    [totals |-> AggregateTotals(ents, LiveDayIds(ents, date)),
     entries |-> LiveDayIds(ents, date)]

(* the non-deleted entries dated d, as a set, and the rounded sum of a field
   over them *)
LiveOfDay(d) == {i \in 1..Len(entries) : entries[i].berlinDate = d /\ ~entries[i].deleted}

RECURSIVE SumField(_, _)
SumField(ids, field) ==
    IF ids = {} THEN 0
    ELSE LET i == CHOOSE x \in ids : TRUE
         IN  (IF entries[i][field] = NullNum THEN 0 ELSE entries[i][field])
             + SumField(ids \ {i}, field)

(* C15: the day summary for date D sums only entries whose deletedAt is null
   and whose date is D: a soft-deleted entry and an entry dated later than D
   contribute nothing to D's totals or entry count *)
C15_DaySummaryOfLiveEntries ==
    \A d \in 0..MaxDay :
        /\ GetDaySummary(entries, d).entryCount = Cardinality(LiveOfDay(d))
        /\ Len(SummarizeDay(entries, d).entries) = Cardinality(LiveOfDay(d))
        /\ \A f \in NutritionFields :
              /\ GetDaySummary(entries, d).totals[f] = Round1(SumField(LiveOfDay(d), f))
              /\ SummarizeDay(entries, d).totals[f] = Round1(SumField(LiveOfDay(d), f))

----------------------------------------------------------------------------
(* Properties of the target of a turn *)

(* C16: a delete turn with scope one, no meal reference in the text (#N or
   meal N), no activeMealId in the request and no target id from the
   classifier returns a non-null requiresInput with an empty list of
   performed actions and soft-deletes nothing, even when the same session
   logged or targeted a meal in an earlier turn *)
C16_DeleteWithoutTargetAsks ==
    [][(/\ IsTurn
        /\ intent'.action = "delete"
        /\ intent'.deleteScope = "one"
        /\ ParseMealIdFromText(request'.text) = NoId
        /\ request'.activeMealId = NoId
        /\ intent'.targetMealId = NoId)
       => /\ envelope'.ok
          /\ envelope'.requiresInput # "none"
          /\ envelope'.actions = <<>>
          /\ envelope'.mealIds = <<>>
          /\ entries' = entries
          /\ meals' = meals]_vars

(* the session logged meal 1 in its first turn; "delete this meal" without an
   activeMealId is asked back and meal 1 keeps its entries and totals *)
C16_Witness ==
    /\ turnNo = 2
    /\ sessions["s1"].activeMealId = 1
    /\ sessions["s1"].lastIntent = "log"
    /\ intent.action = "delete"
    /\ intent.deleteScope = "one"
    /\ request.activeMealId = NoId
    /\ envelope.requiresInput = "delete_target"
    /\ Cardinality(LiveSet(entries, 1)) = 2
    /\ meals[1].kcal = 46100

(* C17: a patch, replace or delete turn that references a meal id for which no
   Meal row exists is answered with a clarification asking the user to
   specify the meal, and no entry is created, updated or soft-deleted *)
C17_MissingMealIsAskedBack ==
    [][(/\ IsTurn
        /\ probe'.net # "unreachable"
        /\ intent'.requiresInput = "none"
        /\ \/ /\ intent'.action = "delete"
              /\ intent'.deleteScope = "one"
              /\ HasDeleteWord(request'.text)
           \/ /\ intent'.action \in {"patch", "replace"}
              /\ LowItems(resolvedItems') = {}
        /\ ResolveTargetMealId(intent', request', meals, clock.berlinDate, FALSE) # NoId
        /\ ResolveTargetMealId(intent', request', meals, clock.berlinDate, FALSE)
              > Len(meals))
       => /\ envelope'.ok
          /\ envelope'.requiresInput \in {"patch_target", "delete_target"}
          /\ envelope'.actions = <<>>
          /\ StoreUnchanged]_vars

----------------------------------------------------------------------------
(* The store operations of a turn, one at a time: createMeal,
   patchMealEntries and deleteMeal await each Prisma call on its own, outside
   any transaction, so the calls of two requests interleave and any write
   can reject.  Two turns run on the store a first turn has logged
   "200g chicken and 100g rice" into. *)

RaceProcs == {1, 2}

RaceTexts ==
    {<<"i", "had", "200g", "chicken", "and", "100g", "rice">>,
     <<"update", "150g", "chicken", "breast">>,
     <<"update", "150g", "chicken", "and", "50g", "chicken">>,
     <<"replace", "meal", "#1", "with", "100g", "chicken">>,
     <<"delete", "this", "meal">>}

NoMatch == [num |-> 0, den |-> 1]

(* the call a turn makes next, once it is through with items[1..i-1] *)
ItemPc(kind, items, existing, i) ==
    IF i > Len(items) THEN (IF kind = "log" THEN "upsert_session" ELSE "read_all")
    ELSE IF kind \in {"log", "replace"} THEN "create_entry"
    ELSE LET m == BestMatch(items[i].name, existing, 1, 0, NoMatch)
         IN  IF m.best # 0 /\ ReachesThreshold(m.score) THEN "update_entry"
             ELSE "create_entry"

(* a turn after resolution, before its first store call; the request carries
   activeMealId 1 *)
TurnProgram(text) ==
    LET int == HeuristicIntent(text)
        resolved == [i \in 1..Len(int.items) |-> ResolveItem(int.items[i], "up")]
    IN  [pc |-> IF int.action = "log" THEN "create_meal"
                ELSE IF int.action = "delete" THEN "delete_entries"
                ELSE "read_existing",
         kind |-> int.action, items |-> resolved,
         mealId |-> IF int.action = "log" THEN NoId ELSE 1,
         existing |-> <<>>, i |-> 1, beforeJson |-> <<>>, updated |-> 0,
         totals |-> ZeroTotals,
         touched |-> <<>>, writes |-> 0, ok |-> TRUE]

(* the calls that write *)
WritePcs ==
    {"create_meal", "create_entry", "update_entry", "create_revision", "soft_delete",
     "write_totals", "delete_entries", "zero_totals", "upsert_session", "log_action"}

FirstText == <<"i", "had", "200g", "chicken", "and", "100g", "rice">>

FirstItems ==
    [i \in 1..Len(HeuristicIntent(FirstText).items) |->
        ResolveItem(HeuristicIntent(FirstText).items[i], "up")]

InitRace ==
    /\ \E created \in {CreateMeal(<<>>, <<>>, FirstItems, 1)} :
          /\ meals = created.meals
          /\ entries = created.entries
          /\ sessions = UpsertSession([s \in SessionIds |-> NoSession], "s1",
                                      created.mealId, "log")
          /\ mealActions = LogAction(<<>>, "s1", created.mealId, "log", "ok",
                                     created.entryIds)
          /\ envelope = Envelope(TRUE, "none", <<"log">>, <<created.mealId>>,
                                 created.entryIds, created.mealId, <<>>)
    /\ revisions = <<>>
    /\ intent = HeuristicIntent(FirstText)
    /\ resolvedItems = FirstItems
    /\ clock = [berlinDate |-> 1, utcDate |-> 0]
    /\ turnNo = 1
    /\ editNo = 0
    /\ request = Request(FirstText, "s1", NoId)
    /\ \E t1 \in RaceTexts, t2 \in RaceTexts :
          probe = [step |-> "race", procs |-> [p \in RaceProcs |->
                                                 TurnProgram(IF p = 1 THEN t1 ELSE t2)]]

TurnIdle == UNCHANGED <<clock, turnNo, editNo, request, intent, resolvedItems, envelope>>

(* process p goes on with the local state proc *)
Goes(p, proc) == probe' = [probe EXCEPT !.procs[p] = proc]

(* part_004 31-49: const existing = await prisma.mealEntry.findMany(...) *)
RaceReadExisting(p) ==
    LET me == probe.procs[p]
        live == LiveIds(entries, me.mealId)
        existing == [k \in 1..Len(live) |-> Snapshot(entries, live[k])]
    IN  /\ me.pc = "read_existing"
        /\ Goes(p, [me EXCEPT !.existing = existing,
                              !.pc = IF me.kind = "replace" THEN "soft_delete"
                                     ELSE ItemPc(me.kind, me.items, existing, 1)])
        /\ UNCHANGED <<meals, entries, revisions, sessions, mealActions>>
        /\ TurnIdle

(* part_004 54-57: updateMany({data: {deletedAt}}) of the replace branch *)
RaceSoftDelete(p) ==
    LET me == probe.procs[p]
    IN  /\ me.pc = "soft_delete"
        /\ entries' = [i \in 1..Len(entries) |->
                          IF entries[i].mealId = me.mealId /\ ~entries[i].deleted
                          THEN [entries[i] EXCEPT !.deleted = TRUE] ELSE entries[i]]
        /\ Goes(p, [me EXCEPT !.pc = ItemPc(me.kind, me.items, me.existing, 1),
                              !.writes = @ + 1])
        /\ UNCHANGED <<meals, revisions, sessions, mealActions>>
        /\ TurnIdle

(* part_004 103-124: beforeJson = JSON.stringify(best), then mealEntry.update
   of the best match *)
RaceUpdateEntry(p) ==
    LET me == probe.procs[p]
        m == BestMatch(me.items[me.i].name, me.existing, 1, 0, NoMatch)
        id == me.existing[m.best].id
    IN  /\ me.pc = "update_entry"
        /\ entries' = [entries EXCEPT ![id] = UpdatedRow(entries[id], me.items[me.i])]
        /\ Goes(p, [me EXCEPT !.pc = "create_revision", !.updated = id,
                              !.beforeJson = <<me.existing[m.best]>>,
                              !.writes = @ + 1])
        /\ UNCHANGED <<meals, revisions, sessions, mealActions>>
        /\ TurnIdle

(* part_004 126-137: entryRevision.create, touchedIds.push *)
RaceCreateRevision(p) ==
    LET me == probe.procs[p]
    IN  /\ me.pc = "create_revision"
        /\ revisions' = Append(revisions,
               [entryId |-> me.updated, before |-> me.beforeJson[1],
                after |-> UpdatedRow(entries[me.updated], me.items[me.i])])
        /\ Goes(p, [me EXCEPT !.pc = ItemPc(me.kind, me.items, me.existing, me.i + 1),
                              !.i = @ + 1, !.touched = Append(@, me.updated),
                              !.writes = @ + 1])
        /\ UNCHANGED <<meals, entries, sessions, mealActions>>
        /\ TurnIdle

(* mealEntry.create of createMeal (find-food-candidates.ts 238-266) and of
   patchMealEntries (part_004 59-88, 140-168) *)
RaceCreateEntry(p) ==
    LET me == probe.procs[p]
        date == IF me.kind = "log" THEN clock.berlinDate ELSE clock.utcDate
    IN  /\ me.pc = "create_entry"
        /\ entries' = Append(entries, EntryRow(me.mealId, me.items[me.i], date))
        /\ Goes(p, [me EXCEPT !.pc = ItemPc(me.kind, me.items, me.existing, me.i + 1),
                              !.i = @ + 1, !.touched = Append(@, Len(entries) + 1),
                              !.writes = @ + 1])
        /\ UNCHANGED <<meals, revisions, sessions, mealActions>>
        /\ TurnIdle

(* part_004 171-195: findMany of the non-deleted entries, aggregateTotals *)
RaceReadAll(p) ==
    LET me == probe.procs[p]
    IN  /\ me.pc = "read_all"
        /\ Goes(p, [me EXCEPT !.pc = "write_totals",
                              !.totals = AggregateTotals(entries,
                                                         LiveIds(entries, me.mealId))])
        /\ UNCHANGED <<meals, entries, revisions, sessions, mealActions>>
        /\ TurnIdle

(* part_004 197-200: meal.update({data: totals}) *)
RaceWriteTotals(p) ==
    LET me == probe.procs[p]
    IN  /\ me.pc = "write_totals"
        /\ meals' = [meals EXCEPT ![me.mealId] = WithTotals(@, me.totals)]
        /\ Goes(p, [me EXCEPT !.pc = "upsert_session", !.writes = @ + 1])
        /\ UNCHANGED <<entries, revisions, sessions, mealActions>>
        /\ TurnIdle

(* find-food-candidates.ts 215-236: meal.create with the totals of the items *)
RaceCreateMeal(p) ==
    LET me == probe.procs[p]
        rows == [i \in 1..Len(me.items) |-> EntryRow(NoId, me.items[i], clock.berlinDate)]
        t == AggregateTotals(rows, [i \in 1..Len(rows) |-> i])
    IN  /\ me.pc = "create_meal"
        /\ meals' = Append(meals, WithTotals([kcal |-> 0, proteinG |-> 0, carbsG |-> 0,
                                              fatG |-> 0, berlinDate |-> clock.berlinDate], t))
        /\ Goes(p, [me EXCEPT !.pc = ItemPc(me.kind, me.items, me.existing, 1),
                              !.mealId = Len(meals) + 1, !.writes = @ + 1])
        /\ UNCHANGED <<entries, revisions, sessions, mealActions>>
        /\ TurnIdle

(* delete-meal.ts 28: mealEntry.updateMany({data: {deletedAt}}) *)
RaceDeleteEntries(p) ==
    LET me == probe.procs[p]
    IN  /\ me.pc = "delete_entries"
        /\ entries' = [i \in 1..Len(entries) |->
                          IF entries[i].mealId = me.mealId /\ ~entries[i].deleted
                          THEN [entries[i] EXCEPT !.deleted = TRUE] ELSE entries[i]]
        /\ Goes(p, [me EXCEPT !.pc = "zero_totals", !.writes = @ + 1])
        /\ UNCHANGED <<meals, revisions, sessions, mealActions>>
        /\ TurnIdle

(* delete-meal.ts 29: meal.updateMany({data: {kcal: 0, ...}}) *)
RaceZeroTotals(p) ==
    LET me == probe.procs[p]
    IN  /\ me.pc = "zero_totals"
        /\ meals' = [meals EXCEPT ![me.mealId] = WithTotals(@, ZeroTotals)]
        /\ Goes(p, [me EXCEPT !.pc = "upsert_session", !.writes = @ + 1])
        /\ UNCHANGED <<entries, revisions, sessions, mealActions>>
        /\ TurnIdle

(* runAgent: upsertSession after the tool has returned *)
RaceUpsertSession(p) ==
    LET me == probe.procs[p]
    IN  /\ me.pc = "upsert_session"
        /\ sessions' = UpsertSession(sessions, "s1",
                                     IF me.kind = "delete" THEN NoId ELSE me.mealId, me.kind)
        /\ Goes(p, [me EXCEPT !.pc = "log_action", !.writes = @ + 1])
        /\ UNCHANGED <<meals, entries, revisions, mealActions>>
        /\ TurnIdle

(* runAgent: logAction, then the turn returns *)
RaceLogAction(p) ==
    LET me == probe.procs[p]
    IN  /\ me.pc = "log_action"
        /\ mealActions' = LogAction(mealActions, "s1", me.mealId, me.kind, "ok", me.touched)
        /\ Goes(p, [me EXCEPT !.pc = "done", !.writes = @ + 1])
        /\ UNCHANGED <<meals, entries, revisions, sessions>>
        /\ TurnIdle

(* the write at hand rejects: nothing is written, runAgent throws and the
   route answers ok=false; what the turn wrote before stays *)
RaceWriteFails(p) ==
    LET me == probe.procs[p]
    IN  /\ me.pc \in WritePcs
        /\ Goes(p, [me EXCEPT !.pc = "failed", !.ok = FALSE])
        /\ UNCHANGED <<meals, entries, revisions, sessions, mealActions>>
        /\ TurnIdle

NextRace ==
    \E p \in RaceProcs :
        \/ RaceReadExisting(p)
        \/ RaceSoftDelete(p)
        \/ RaceUpdateEntry(p)
        \/ RaceCreateRevision(p)
        \/ RaceCreateEntry(p)
        \/ RaceReadAll(p)
        \/ RaceWriteTotals(p)
        \/ RaceCreateMeal(p)
        \/ RaceDeleteEntries(p)
        \/ RaceZeroTotals(p)
        \/ RaceUpsertSession(p)
        \/ RaceLogAction(p)
        \/ RaceWriteFails(p)

RaceSpec == InitRace /\ [][NextRace]_vars

(* C18: if a store write fails partway through a log, patch or replace turn,
   the turn returns ok=false and the store holds none of that turn's writes:
   no Meal without its entries, and no entry write without the matching
   totals recompute *)
C18_FailedTurnLeavesNoWrites ==
    \A p \in RaceProcs :
        LET me == probe.procs[p]
        IN  (me.pc = "failed" /\ me.kind \in {"log", "patch", "replace"})
            => /\ ~me.ok
               /\ me.writes = 0
               /\ me.kind = "log" => me.mealId = NoId
               /\ me.touched = <<>>

(* C19: when two turns targeting the same meal run concurrently with their
   store operations interleaved in any order, then once both have finished
   the meal's stored totals equal the sum of its non-deleted entries *)
C19_RacingTurnsLeaveTotalsRight ==
    (\A p \in RaceProcs : probe.procs[p].pc = "done" /\ probe.procs[p].mealId = 1)
    => /\ meals[1].kcal = Round1(SumOver(entries, LiveIds(entries, 1), "kcal"))
       /\ meals[1].proteinG = Round1(SumOver(entries, LiveIds(entries, 1), "proteinG"))
       /\ meals[1].carbsG = Round1(SumOver(entries, LiveIds(entries, 1), "carbsG"))
       /\ meals[1].fatG = Round1(SumOver(entries, LiveIds(entries, 1), "fatG"))

----------------------------------------------------------------------------
(* Calories from macros *)

(* C20: for any parsed or resolved item with protein, carbs and fat all
   present and kcal absent, kcal is set to protein*4 + carbs*4 + fat*9 rounded
   to one decimal (10, 20, 10 gives 210) and the item's source is estimated *)
C20_KcalFromMacros ==
    (/\ probe.step \in {"found", "enriched", "selected"}
     /\ probe.item.kcal = NullNum
     /\ probe.item.proteinG # NullNum
     /\ probe.item.carbsG # NullNum
     /\ probe.item.fatG # NullNum)
    => /\ probe.result.kcal = Round1(4 * probe.item.proteinG + 4 * probe.item.carbsG
                                     + 9 * probe.item.fatG)
       /\ probe.result.source = "estimated"

----------------------------------------------------------------------------
(* Quantities: normalizeItemQuantity of the draft pipeline *)

EggGramsSmall == 40
EggGramsMedium == 50
EggGramsLarge == 60
GramsPerKilogram == 1000

(* EGG_GRAMS_BY_SIZE *)
EggGramsBySize(size) ==
    CASE size = "small" -> EggGramsSmall
      [] size = "medium" -> EggGramsMedium
      [] size = "large" -> EggGramsLarge

(* a unit that is undefined or the empty string *)
NoUnit == RawName(<<>>, FALSE, FALSE)

(* normalizeUnit: "undefined" stands for the undefined result *)
NormalizeUnit(unit) ==
    IF unit = NoUnit THEN "undefined"
    ELSE LET normalized == Trim(ToLowerCase(unit)).words
         IN  IF normalized = <<>> THEN ""
             ELSE IF normalized[1] \in {"g", "gram", "grams"} THEN "g"
             ELSE IF normalized[1] \in {"kg", "kilogram", "kilograms"} THEN "kg"
             ELSE IF normalized[1] \in {"egg", "eggs", "piece", "pieces"} THEN "piece"
             ELSE IF normalized[1] \in {"pack", "packs", "package", "pkg"} THEN "pack"
             ELSE normalized[1]

(* `Converted ${quantity} ${size} egg(s) to ${amountGrams}g (${gramsPerEgg}g each).` *)
EggAssumption(quantity, size, grams, each) ==
    [text |-> "converted_eggs", quantity |-> quantity, size |-> size, grams |-> grams,
     each |-> each]

KilogramAssumption == [text |-> "converted_kilograms"]

(* every egg weighs what a medium one does *)
NormalizeQuantityMediumOnly(item) ==
    LET unit == NormalizeUnit(item.unit)
        normalized == [item EXCEPT !.unit = unit]
    IN  IF item.amountGrams # NullNum \/ item.quantity = NullNum THEN normalized
        ELSE IF unit = "g" THEN [normalized EXCEPT !.amountGrams = item.quantity]
        ELSE IF unit = "kg"
        THEN [normalized EXCEPT !.amountGrams = item.quantity * GramsPerKilogram,
                                !.assumptions = Append(@, KilogramAssumption)]
        ELSE IF unit \in {"piece", "undefined"} /\ TextHas(item.name, {"egg", "eggs"})
        THEN [normalized EXCEPT
                 !.amountGrams = item.quantity * EggGramsMedium,
                 !.assumptions = Append(@, EggAssumption(item.quantity, "medium",
                                                         item.quantity * EggGramsMedium,
                                                         EggGramsMedium))]
        ELSE normalized

(* normalizeItemQuantity; the name is lower-cased before the test *)
NormalizeItemQuantity(item) ==
    LET unit == NormalizeUnit(item.unit)
        normalized == [item EXCEPT !.unit = unit]
        size == IF item.size = "undefined" THEN "medium" ELSE item.size
        gramsPerEgg == EggGramsBySize(size)
    IN  IF item.amountGrams # NullNum THEN normalized
        ELSE IF item.quantity # NullNum /\ unit = "g"
        THEN [normalized EXCEPT !.amountGrams = item.quantity]
        ELSE IF item.quantity # NullNum /\ unit = "kg"
        THEN [normalized EXCEPT !.amountGrams = item.quantity * GramsPerKilogram,
                                !.assumptions = Append(@, KilogramAssumption)]
        ELSE IF /\ item.quantity # NullNum
                /\ unit \in {"piece", "undefined"}
                /\ TextHas(item.name, {"egg", "eggs"})
        THEN [normalized EXCEPT
                 !.amountGrams = item.quantity * gramsPerEgg,
                 !.assumptions = Append(@, EggAssumption(item.quantity, size,
                                                         item.quantity * gramsPerEgg,
                                                         gramsPerEgg))]
        ELSE normalized

QuantityNames == {<<"eggs">>, <<"boiled", "egg">>, <<"veggie", "burger">>, <<"rice">>}
Quantities == {NullNum, 0, 1, 4}
QuantityGrams == {NullNum, 150}
Sizes == {"undefined", "small", "medium", "large"}
Units ==
    {NoUnit, RawName(<<>>, FALSE, TRUE)}
    \cup {RawName(<<u>>, b, b) : u \in {"eggs", "egg", "piece", "pieces", "g", "kg", "pack",
                                        "cup"},
                                 b \in BOOLEAN}
EarlierAssumptions == {<<>>, <<[text |-> "no_amount"]>>}

QuantityItems ==
    {[name |-> n, quantity |-> q, unit |-> u, size |-> z, amountGrams |-> g,
      assumptions |-> a, source |-> "agent"] :
        n \in QuantityNames, q \in Quantities, u \in Units, z \in Sizes,
        g \in QuantityGrams, a \in EarlierAssumptions}

InitQuantity ==
    /\ meals = <<>>
    /\ entries = <<>>
    /\ revisions = <<>>
    /\ sessions = [s \in SessionIds |-> NoSession]
    /\ mealActions = <<>>
    /\ clock = [berlinDate |-> 1, utcDate |-> 1]
    /\ turnNo = 0
    /\ editNo = 0
    /\ request = Request(<<>>, "s1", NoId)
    /\ intent = Intent("clarify", NoId, <<>>, "none", 0, "none")
    /\ resolvedItems = <<>>
    /\ envelope = NoEnvelope
    /\ \E item \in QuantityItems : probe = [step |-> "input", item |-> item]

(* extractedItems.map(toMealItem).map(normalizeItemQuantity), for one item *)
ProbeNormalize ==
    /\ probe.step = "input"
    /\ probe' = [step |-> "normalized", item |-> probe.item,
                 result |-> NormalizeItemQuantity(probe.item)]
    /\ StoreIdle

NextQuantity == ProbeNormalize

QuantitySpec == InitQuantity /\ [][NextQuantity]_vars

(* C21: normalizeItemQuantity on an item with no amountGrams, quantity q, a
   unit that is piece/egg(s) or absent, and a name containing egg sets
   amountGrams to q times 40, 50 or 60 for small, medium or large (medium
   when size is omitted) and appends one assumption stating the total grams
   and the grams per egg *)
C21_EggQuantityToGrams ==
    (/\ probe.step = "normalized"
     /\ probe.item.amountGrams = NullNum
     /\ probe.item.quantity # NullNum
     /\ \/ probe.item.unit = NoUnit
        \/ Trim(ToLowerCase(probe.item.unit)).words \in {<<"piece">>, <<"egg">>, <<"eggs">>}
     /\ \E i \in 1..Len(probe.item.name) :
           probe.item.name[i] \in {"egg", "eggs", "veggie"})
    => LET each == CASE probe.item.size = "small" -> 40
                     [] probe.item.size = "large" -> 60
                     [] OTHER -> 50
       IN  /\ probe.result.amountGrams = probe.item.quantity * each
           /\ Len(probe.result.assumptions) = Len(probe.item.assumptions) + 1
           /\ SubSeq(probe.result.assumptions, 1, Len(probe.item.assumptions))
                 = probe.item.assumptions
           /\ probe.result.assumptions[Len(probe.result.assumptions)].grams
                 = probe.item.quantity * each
           /\ probe.result.assumptions[Len(probe.result.assumptions)].each = each

(* 4 medium eggs have become 200 g at 50 g each; 4 large ones 240 g *)
C21_Witness ==
    /\ probe.step = "normalized"
    /\ probe.item.name = <<"eggs">>
    /\ probe.item.quantity = 4
    /\ probe.item.unit = RawName(<<"eggs">>, FALSE, FALSE)
    /\ probe.item.size = "large"
    /\ probe.item.amountGrams = NullNum
    /\ probe.result.amountGrams = 240
    /\ probe.result.assumptions = <<EggAssumption(4, "large", 240, 60)>>

----------------------------------------------------------------------------
(* The heuristic classifier on its own *)

Openers ==
    {<<>>, <<"i", "had">>, <<"update">>, <<"change">>, <<"actually">>, <<"replace">>,
     <<"instead">>, <<"delete">>, <<"show">>}

Bodies ==
    {<<>>, <<"150g", "chicken">>, <<"the", "chicken">>, <<"skyr">>,
     <<"skyr", "and", "100g", "rice">>, <<"a">>, <<"please">>, <<"meal", "#1">>}

Utterances == {o \o b : o \in Openers, b \in Bodies}

InitIntent ==
    /\ meals = <<>>
    /\ entries = <<>>
    /\ revisions = <<>>
    /\ sessions = [s \in SessionIds |-> NoSession]
    /\ mealActions = <<>>
    /\ clock = [berlinDate |-> 1, utcDate |-> 1]
    /\ turnNo = 0
    /\ editNo = 0
    /\ request = Request(<<>>, "s1", NoId)
    /\ intent = Intent("clarify", NoId, <<>>, "none", 0, "none")
    /\ resolvedItems = <<>>
    /\ envelope = NoEnvelope
    /\ \E text \in Utterances : probe = [step |-> "input", text |-> text]

(* heuristicIntent(text) *)
ProbeClassify ==
    /\ probe.step = "input"
    /\ probe' = [step |-> "classified", text |-> probe.text,
                 result |-> HeuristicIntent(probe.text)]
    /\ StoreIdle

NextIntent == ProbeClassify

IntentSpec == InitIntent /\ [][NextIntent]_vars

(* C22: in the heuristic classifier the whole-utterance fallback item is
   produced only when the action is log; a patch or replace utterance from
   which the grams pattern extracts no item yields an empty item list and a
   non-null requiresInput *)
C22_FallbackItemOnlyForLog ==
    (probe.step = "classified" /\ GramItems(probe.text, 1) = <<>>)
    => /\ probe.result.items # <<>> => probe.result.action = "log"
       /\ probe.result.action \in {"patch", "replace"}
             => /\ probe.result.items = <<>>
                /\ probe.result.requiresInput # "none"

----------------------------------------------------------------------------
(* The resolver on a cache miss, one query at a time *)

CandidateIds == {"off_1", "off_2", "off_3"}
CandidateLimits == {1, 2}
MaxAnswer == 2

(* what a source answers: up to MaxAnswer candidates, an id possibly twice *)
Answers(sourceType, n) ==
    UNION {[1..k -> {Candidate(id, <<"rice">>, <<"generic">>, 13100, 270, 2800, 30,
                               sourceType) : id \in CandidateIds}] : k \in 0..n}

InitMerge ==
    /\ meals = <<>>
    /\ entries = <<>>
    /\ revisions = <<>>
    /\ sessions = [s \in SessionIds |-> NoSession]
    /\ mealActions = <<>>
    /\ clock = [berlinDate |-> 1, utcDate |-> 1]
    /\ turnNo = 0
    /\ editNo = 0
    /\ request = Request(<<>>, "s1", NoId)
    /\ intent = Intent("clarify", NoId, <<>>, "none", 0, "none")
    /\ resolvedItems = <<>>
    /\ envelope = NoEnvelope
    /\ \E limit \in CandidateLimits, de \in Answers("openfoodfacts_de", MaxAnswer),
          global \in Answers("openfoodfacts_global", MaxAnswer),
          web \in Answers("openfoodfacts_web", 1) :
          probe = [step |-> "miss", limit |-> limit, de |-> de, global |-> global,
                   web |-> web, asked |-> <<>>, merged |-> <<>>, result |-> <<>>]

NormalizedLimit(limit) == Max2(LimitFloor, Min2(limit, LimitCeil))

(* part_001 258-265: the Germany-scoped search, merged.set of each candidate *)
QueryDe ==
    /\ probe.step = "miss"
    /\ probe' = [probe EXCEPT !.step = "de_done",
                              !.asked = Append(@, [source |-> "de", found |-> 0]),
                              !.merged = MergeSet(<<>>, probe.de)]
    /\ StoreIdle

(* part_001 267-278: the global search *)
QueryGlobal ==
    /\ probe.step = "de_done"
    /\ Len(probe.merged) < NormalizedLimit(probe.limit)
    /\ probe' = [probe EXCEPT !.step = "global_done",
                              !.asked = Append(@, [source |-> "global",
                                                   found |-> Len(probe.merged)]),
                              !.merged = MergeNew(probe.merged, probe.global,
                                                  NormalizedLimit(probe.limit))]
    /\ StoreIdle

(* part_001 280-288: the web search *)
QueryWeb ==
    /\ probe.step = "global_done"
    /\ Len(probe.merged) = 0
    /\ probe' = [probe EXCEPT !.step = "web_done",
                              !.asked = Append(@, [source |-> "web", found |-> 0]),
                              !.merged = MergeNew(probe.merged, probe.web,
                                                  NormalizedLimit(probe.limit))]
    /\ StoreIdle

(* part_001 290-295: slice, lookupCache.set, return *)
ReturnCandidates ==
    /\ \/ probe.step = "web_done"
       \/ probe.step = "global_done" /\ Len(probe.merged) # 0
       \/ probe.step = "de_done" /\ Len(probe.merged) >= NormalizedLimit(probe.limit)
    /\ probe' = [probe EXCEPT !.step = "returned",
                              !.result = SubSeq(probe.merged, 1,
                                                Min2(Len(probe.merged),
                                                     NormalizedLimit(probe.limit)))]
    /\ StoreIdle

NextMerge == QueryDe \/ QueryGlobal \/ QueryWeb \/ ReturnCandidates

MergeSpec == InitMerge /\ [][NextMerge]_vars

(* C23: on a cache miss, getOpenFoodFactsCandidates queries the
   Germany-scoped source first, queries the global source only when fewer
   than limit candidates were found, queries the web-search source only when
   both produced none, and returns at most limit candidates with pairwise
   distinct ids, Germany-scoped ones first *)
C23_SourcesInOrder ==
    /\ probe.step # "miss" => probe.asked[1].source = "de"
    /\ \A k \in 1..Len(probe.asked) :
          /\ probe.asked[k].source = "de" => k = 1
          /\ probe.asked[k].source = "global"
                => /\ k = 2
                   /\ Cardinality({probe.de[i].id : i \in 1..Len(probe.de)}) < probe.limit
          /\ probe.asked[k].source = "web"
                => k = 3 /\ probe.de = <<>> /\ probe.global = <<>>
    /\ probe.step = "returned"
          => /\ Len(probe.result) <= probe.limit
             /\ \A i, j \in 1..Len(probe.result) :
                   i < j => /\ probe.result[i].id # probe.result[j].id
                            /\ probe.result[j].sourceType = "openfoodfacts_de"
                                  => probe.result[i].sourceType = "openfoodfacts_de"
             /\ probe.result = GetOpenFoodFactsCandidates(probe.limit, probe.de,
                                                          probe.global, probe.web)

(* the Germany-scoped source gave one candidate of two wanted; the global
   one gave the same id again and a new one; the first is kept, the new one
   follows it *)
C23_Witness ==
    /\ probe.step = "returned"
    /\ probe.limit = 2
    /\ Len(probe.de) = 1
    /\ Len(probe.global) = 2
    /\ probe.global[1].id = probe.de[1].id
    /\ probe.global[2].id # probe.de[1].id
    /\ Len(probe.asked) = 2
    /\ probe.result = <<probe.de[1], probe.global[2]>>

----------------------------------------------------------------------------
(* The ranking on its own *)

RankPool ==
    {Candidate("off_1", <<"cooked", "rice">>, <<"generic">>, 13100, 270, 2800, 30,
               "openfoodfacts_de"),
     Candidate("off_2", <<"skyr", "natural">>, <<"milbona">>, 6200, 1100, 400, 20,
               "openfoodfacts_de"),
     Candidate("off_3", <<"rice">>, <<>>, 13000, 270, 2800, 30, "openfoodfacts_global"),
     Candidate("off_4", <<"egg", "fried", "rice">>, <<>>, 16300, 500, 2400, 500,
               "openfoodfacts_web")}

MaxCandidates == 3

(* what the resolver may return: distinct ids, Germany-scoped ones first *)
ResolverLists ==
    {l \in UNION {[1..k -> RankPool] : k \in 0..MaxCandidates} :
        \A i, j \in 1..Len(l) :
            i < j => /\ l[i].id # l[j].id
                     /\ l[j].sourceType = "openfoodfacts_de"
                           => l[i].sourceType = "openfoodfacts_de"}

RankNames == {<<>>, <<"a">>, <<"rice">>, <<"fried", "rice">>, <<"skyr">>}
RankedLimits == {1, 2, 5}

InitRank ==
    /\ meals = <<>>
    /\ entries = <<>>
    /\ revisions = <<>>
    /\ sessions = [s \in SessionIds |-> NoSession]
    /\ mealActions = <<>>
    /\ clock = [berlinDate |-> 1, utcDate |-> 1]
    /\ turnNo = 0
    /\ editNo = 0
    /\ request = Request(<<>>, "s1", NoId)
    /\ intent = Intent("clarify", NoId, <<>>, "none", 0, "none")
    /\ resolvedItems = <<>>
    /\ envelope = NoEnvelope
    /\ \E item \in RankNames, limit \in RankedLimits, candidates \in ResolverLists :
          probe = [step |-> "input", item |-> item, limit |-> limit,
                   candidates |-> candidates]

(* getRankedFoodCandidates(item, limit), the resolver having answered *)
ProbeRank ==
    /\ probe.step = "input"
    /\ probe' = [step |-> "ranked", item |-> probe.item, limit |-> probe.limit,
                 candidates |-> probe.candidates,
                 result |-> GetRankedFoodCandidates(probe.item, probe.limit,
                                                    probe.candidates)]
    /\ StoreIdle

NextRank == ProbeRank

RankSpec == InitRank /\ [][NextRank]_vars

(* the place of the candidate of this id in the resolver's list *)
PlaceOf(id) == CHOOSE k \in 1..Len(probe.candidates) : probe.candidates[k].id = id

(* C24: getRankedFoodCandidates returns candidates in non-increasing score
   order with every score in [0,1] and candidates of equal score in resolver
   order; when the query name has no token longer than one character, every
   returned candidate has score 0.5 and resolver order is kept *)
C24_RankedByScoreStable ==
    probe.step = "ranked"
    => /\ \A i \in 1..Len(probe.result) :
             /\ probe.result[i].score \in 0..100
             /\ \E k \in 1..Len(probe.candidates) :
                   probe.candidates[k].id = probe.result[i].id
       /\ \A i, j \in 1..Len(probe.result) :
             i < j => /\ probe.result[i].score >= probe.result[j].score
                      /\ probe.result[i].score = probe.result[j].score
                            => PlaceOf(probe.result[i].id) < PlaceOf(probe.result[j].id)
       /\ (\A k \in 1..Len(probe.item) : Len(probe.item[k]) <= 1)
             => /\ \A i \in 1..Len(probe.result) :
                      /\ probe.result[i].score = 50
                      /\ probe.result[i].id = probe.candidates[i].id

(* for "rice" the skyr the resolver listed first comes last, and the two
   rice candidates, both of score 1, stay in the resolver's order *)
C24_Witness ==
    /\ probe.step = "ranked"
    /\ probe.item = <<"rice">>
    /\ Len(probe.candidates) = 3
    /\ probe.candidates[1].id = "off_2"
    /\ Len(probe.result) = 3
    /\ probe.result[1].id = "off_1"
    /\ probe.result[2].id = "off_3"
    /\ probe.result[3].id = "off_2"
    /\ probe.result[1].score = 100
    /\ probe.result[2].score = 100
    /\ probe.result[3].score < 100

----------------------------------------------------------------------------
(* Properties of the session row *)

(* C25: a turn of session S whose request carries no activeMealId uses the
   activeMealId that the preceding turn stored for S as its active-meal
   context when resolving the target of a patch, replace or delete *)
C25_StoredActiveMealIsUsed ==
    [][(/\ IsTurn
        /\ request'.activeMealId = NoId
        /\ sessions[request'.sessionId].activeMealId # NoId
        /\ intent'.action \in {"patch", "replace", "delete"}
        /\ intent'.deleteScope # "all"
        /\ intent'.targetMealId = NoId
        /\ ParseMealIdFromText(request'.text) = NoId
        /\ intent'.requiresInput = "none"
        /\ ExplicitDelete(request'.text) \/ intent'.action # "delete"
        /\ envelope'.ok)
       => /\ envelope'.requiresInput = "none"
          /\ envelope'.mealIds = <<sessions[request'.sessionId].activeMealId>>]_vars

----------------------------------------------------------------------------
(* Properties of the revisions of a patch *)

(* C26: for every entry, the before-snapshot of each EntryRevision equals the
   entry's stored state immediately before that update, also when two items
   of one patch turn both match the same existing entry; stated for a patch
   turn that runs alone, at the update the revision is written for *)
C26_BeforeIsStateBeforeUpdate ==
    [][\A p \in RaceProcs :
          (/\ probe.procs[p].pc = "update_entry"
           /\ probe'.procs[p].pc = "create_revision"
           /\ \A q \in RaceProcs \ {p} : probe.procs[q].writes = 0)
          => probe'.procs[p].beforeJson
                = <<Snapshot(entries, probe'.procs[p].updated)>>]_vars

----------------------------------------------------------------------------
(* A turn on a store with a history: the turns before it have logged
   "200g chicken and 100g rice" as meal 1 and then deleted it, replaced its
   entries, or logged the same meal again as meal 2 *)

MaxLaterTurns == 1
MaxLaterMeals == 3
MaxLaterEntries == 6

DeleteText == <<"delete", "this", "meal">>
ReplaceText == <<"replace", "meal", "#1", "with", "100g", "chicken">>

ItemsOf(text) ==
    [i \in 1..Len(HeuristicIntent(text).items) |->
        ResolveItem(HeuristicIntent(text).items[i], "up")]

(* the store after the first turn has logged items *)
FirstStore(items) ==
    LET created == CreateMeal(<<>>, <<>>, items, 1)
    IN  [meals |-> created.meals, entries |-> created.entries,
         mealId |-> created.mealId, entryIds |-> created.entryIds,
         sessions |-> UpsertSession([s \in SessionIds |-> NoSession], "s1",
                                    created.mealId, "log"),
         mealActions |-> LogAction(<<>>, "s1", created.mealId, "log", "ok",
                                   created.entryIds)]

(* meal 1 deleted by "delete this meal" with activeMealId 1 *)
HistoryDeleted(first) ==
    LET deleted == DeleteMeal(first.meals, first.entries, 1, 1, FALSE)
    IN  [meals |-> deleted.meals, entries |-> deleted.entries, revisions |-> <<>>,
         sessions |-> UpsertSession(first.sessions, "s1", NoId, "delete"),
         mealActions |-> LogAction(first.mealActions, "s1", 1, "delete", "ok", <<>>),
         request |-> Request(DeleteText, "s1", 1),
         intent |-> HeuristicIntent(DeleteText),
         resolvedItems |-> <<>>,
         envelope |-> Envelope(TRUE, "none", <<"delete">>, <<1>>, <<>>, NoId, <<>>)]

(* the entries of meal 1 replaced by "replace meal #1 with 100g chicken",
   in the first hour of the Berlin day *)
HistoryReplaced(first, items) ==
    LET patched == PatchMealEntries(first.meals, first.entries, <<>>, 1, items, TRUE, 0)
    IN  [meals |-> patched.meals, entries |-> patched.entries,
         revisions |-> patched.revisions,
         sessions |-> UpsertSession(first.sessions, "s1", 1, "replace"),
         mealActions |-> LogAction(first.mealActions, "s1", 1, "replace", "ok",
                                   patched.entryIds),
         request |-> Request(ReplaceText, "s1", NoId),
         intent |-> HeuristicIntent(ReplaceText),
         resolvedItems |-> items,
         envelope |-> Envelope(TRUE, "none", <<"patch">>, <<1>>, patched.entryIds, 1,
                               <<>>)]

(* the same meal logged a second time *)
HistoryTwoMeals(first, items) ==
    LET created == CreateMeal(first.meals, first.entries, items, 1)
    IN  [meals |-> created.meals, entries |-> created.entries, revisions |-> <<>>,
         sessions |-> UpsertSession(first.sessions, "s1", created.mealId, "log"),
         mealActions |-> LogAction(first.mealActions, "s1", created.mealId, "log", "ok",
                                   created.entryIds),
         request |-> Request(FirstText, "s1", NoId),
         intent |-> HeuristicIntent(FirstText),
         resolvedItems |-> items,
         envelope |-> Envelope(TRUE, "none", <<"log">>, <<created.mealId>>,
                               created.entryIds, created.mealId, <<>>)]

InitHistory ==
    /\ \E firstItems \in {FirstItems}, replaceItems \in {ItemsOf(ReplaceText)} :
        \E first \in {FirstStore(firstItems)} :
         \E h \in {HistoryDeleted(first), HistoryReplaced(first, replaceItems),
                   HistoryTwoMeals(first, firstItems)} :
          /\ meals = h.meals
          /\ entries = h.entries
          /\ revisions = h.revisions
          /\ sessions = h.sessions
          /\ mealActions = h.mealActions
          /\ request = h.request
          /\ intent = h.intent
          /\ resolvedItems = h.resolvedItems
          /\ envelope = h.envelope
    /\ clock \in {[berlinDate |-> 1, utcDate |-> 0], [berlinDate |-> 1, utcDate |-> 1]}
    /\ turnNo = 2
    /\ editNo = 0
    /\ probe = NoProbe

(* POST /api/agent/log-meal: one more run of runAgent *)
LaterTurn ==
    /\ turnNo < 2 + MaxLaterTurns
    /\ \E text \in Corpus, mode \in BackendModes :
         \E answer \in IF mode = "ok" THEN ModelIntents(text) ELSE {HeuristicIntent(text)} :
          \E net \in NetModesFor(answer), sessionId \in SessionIds,
             activeMealId \in 0..Len(meals) :
           \E req \in {Request(text, sessionId, activeMealId)},
              int \in {ParseIntent(text, mode, answer)} :
            \E out \in {RunAgent(req, int, net)} :
                /\ Len(out.meals) <= MaxLaterMeals
                /\ Len(out.entries) <= MaxLaterEntries
                /\ meals' = out.meals
                /\ entries' = out.entries
                /\ revisions' = out.revisions
                /\ sessions' = out.sessions
                /\ mealActions' = out.mealActions
                /\ request' = req
                /\ intent' = out.intent
                /\ resolvedItems' = out.resolvedItems
                /\ envelope' = out.envelope
    /\ turnNo' = turnNo + 1
    /\ UNCHANGED <<clock, editNo, probe>>

NextHistory == LaterTurn

HistorySpec == InitHistory /\ [][NextHistory]_vars

(* C27: once an entry's deletedAt is set by a delete or replace turn, no
   later turn of runAgent clears or changes deletedAt, updates the entry's
   values, or removes the row *)
C27_DeletedEntriesStayAsTheyAre ==
    [][IsTurn => /\ Len(entries') >= Len(entries)
                 /\ \A e \in 1..Len(entries) :
                       entries[e].deleted => entries'[e] = entries[e]]_vars

(* after the replace that soft-deleted "200g chicken", a patch of the same
   meal by "update 150g chicken breast" has changed the live chicken entry
   and left the deleted one *)
C27_Witness ==
    /\ turnNo = 3
    /\ request.text = <<"update", "150g", "chicken", "breast">>
    /\ envelope.actions = <<"patch">>
    /\ envelope.mealIds = <<1>>
    /\ envelope.entryIds = <<3>>
    /\ Len(revisions) = 1
    /\ entries[1].deleted
    /\ entries[1].amountGrams = 200
    /\ entries[2].deleted
    /\ ~entries[3].deleted
    /\ entries[3].amountGrams = 150

----------------------------------------------------------------------------
(* Properties of the rows of a meal *)

(* C28: every Meal row created by a log turn has at least one MealEntry
   attached when the turn ends, including when the reasoning backend returns
   a log intent with an empty item list and a null requiresInput *)
C28_LoggedMealHasEntries ==
    \A m \in 1..Len(meals) : \E e \in 1..Len(entries) : entries[e].mealId = m

(* C29: every MealEntry attached to a Meal carries the same berlinDate as
   that Meal, including entries inserted by a patch or replace turn, so a
   meal's entries are all counted in the day summary of the meal's own date *)
C29_EntriesCarryMealDate ==
    \A e \in 1..Len(entries) :
        entries[e].mealId \in 1..Len(meals)
        => entries[e].berlinDate = meals[entries[e].mealId].berlinDate

(* C30: a delete turn with scope one and target meal M changes only the
   entries of M and M's totals; the entries and totals of every other meal
   are unchanged *)
C30_DeleteOneTouchesOneMeal ==
    [][(/\ IsTurn
        /\ intent'.action = "delete"
        /\ intent'.deleteScope = "one"
        /\ envelope'.actions = <<"delete">>
        /\ envelope'.mealIds # <<>>)
       => /\ Len(envelope'.mealIds) = 1
          /\ Len(meals') = Len(meals)
          /\ Len(entries') = Len(entries)
          /\ \A m \in 1..Len(meals) :
                m # envelope'.mealIds[1] => meals'[m] = meals[m]
          /\ \A e \in 1..Len(entries) :
                entries[e].mealId # envelope'.mealIds[1] => entries'[e] = entries[e]
          /\ revisions' = revisions]_vars

(* of two logged meals the first has been deleted by "delete this meal":
   its entries are soft-deleted and its totals zero, the second meal has its
   two live entries and its totals *)
C30_Witness ==
    /\ turnNo = 3
    /\ request.text = <<"delete", "this", "meal">>
    /\ request.activeMealId = 1
    /\ envelope.actions = <<"delete">>
    /\ envelope.mealIds = <<1>>
    /\ Len(meals) = 2
    /\ meals[1].kcal = 0
    /\ meals[2].kcal = 46100
    /\ LiveSet(entries, 1) = {}
    /\ LiveSet(entries, 2) = {3, 4}

====
